---- MODULE Spec2Model ----
(***************************************************************************)
(* The local tool-server supervisor of gemini-dev-studio:                  *)
(*   - MCPClient (src/backend/mcp_integration.py): its construction        *)
(*     (load_config, _assign_ports), start_server, stop_server, call_tool, *)
(*     get_server_status and the batch operations run by concurrent caller *)
(*     threads, and the _monitor_servers daemon thread, all on the         *)
(*     unsynchronised dicts active_servers and processes;                  *)
(*   - get_mcp_client and the module global _mcp_client, through which     *)
(*     the application gets its client;                                    *)
(*   - the two Docker routers, DockerMCPManager and DockerMCPHandler: their*)
(*     send_query, start, stop and status refresh.                         *)
(* One action is one stretch of code between two blocking calls (sleep,    *)
(* socket probe, Popen, wait, HTTP request, logging I/O), where CPython    *)
(* may switch threads.                                                     *)
(***************************************************************************)
EXTENDS Integers, Sequences, FiniteSets, TLC

(***************************************************************************)
(* Bounds of the model and constants of the program                        *)
(***************************************************************************)
\* Operations (start_server, stop_server, call_tool) the callers begin during one run.
MaxOps == 2

\* start_server calls made on one server during one run of the specification of
\* repeated starts.
MaxStarts == 3

\* restart_server is entered as one of the first MaxRestarts operations of a run of the
\* specification of restarts.
MaxRestarts == 2

\* base_port of _assign_ports, and the start of the reassignment scan.
BasePort == 3000
\* end (exclusive) of the reassignment scan range(3000, 3100).
ScanEnd == 3100

\* Caller threads of the surrounding application.
Callers == {"c1", "c2"}

\* Insertion order of self.servers after load_config.
ServerOrder == <<"A", "B">>
Servers == {ServerOrder[i] : i \in 1..Len(ServerOrder)}
\* A name that is in no configuration.
Unconfigured == "X"
AllNames == Servers \cup {Unconfigured}

\* Ports an unrelated process of the machine may already listen on.
ExtPorts == {3001}

\* A deleted slot of the dict's entry array.
Dummy == "<dummy>"

VARIABLES
    active_servers,  \* dict: server name -> [port]
    processes,       \* dict: server name -> [process (launch id), port]
    entries,         \* entry array of the processes dict: keys in insertion order, Dummy where deleted
    launches,        \* number of launch ids handed out
    ops,             \* number of operations begun
    child,           \* launch id -> the OS child process [name, port, st, bound]
    handles,         \* launch id -> state of the two log file objects opened for it
    extBound,        \* ports bound by unrelated processes
    pc,              \* caller -> position in its operation
    op,              \* caller -> top-level operation it runs
    arg,             \* caller -> server_name argument
    lport,           \* caller -> local variable port
    test_port,       \* caller -> loop variable test_port of the port scan
    lproc,           \* caller -> local variable process (launch id)
    rpc,             \* caller -> its HTTP request: [st, peer], peer the process that accepted it
    ret,             \* caller -> what its last operation returned (or raised)
    mon,             \* the monitor thread
    deadAtPass,      \* launch ids that were tracked in active_servers and had exited when the current monitor pass began
    obs,             \* caller -> how far the target's status went stopped, starting, running during this call_tool
    dk,              \* the docker routers and the docker daemon
    outer,           \* caller -> frame of restart_server, start_all_servers or stop_all_servers around the callee
    conf,            \* the configuration: the candidate files, self.servers, self.ports, how far __init__ got
    clients          \* the module global _mcp_client, the clients get_mcp_client made, and which of them the variables above show

mcpVars == <<active_servers, processes, entries, launches, ops, child, handles,
             extBound, pc, op, arg, lport, test_port, lproc, rpc, ret, mon, deadAtPass, obs,
             outer, conf, clients>>
vars == <<active_servers, processes, entries, launches, ops, child, handles,
          extBound, pc, op, arg, lport, test_port, lproc, rpc, ret, mon, deadAtPass, obs,
          dk, outer, conf, clients>>

(***************************************************************************)
(* Python dicts                                                            *)
(***************************************************************************)
Has(d, k) == k \in DOMAIN d

\* d.pop(k, None)
Pop(d, k) == [x \in DOMAIN d \ {k} |-> d[x]]

\* d[k] = v
Put(d, k, v) == [x \in DOMAIN d \cup {k} |-> IF x = k THEN v ELSE d[x]]

\* Entry array after d[k] = v: a new key is appended, an existing key keeps its slot.
EntriesPut(es, d, k) == IF Has(d, k) THEN es ELSE Append(es, k)

\* Entry array after d.pop(k, None): the slot stays, emptied.
EntriesPop(es, k) == [i \in 1..Len(es) |-> IF es[i] = k THEN Dummy ELSE es[i]]

\* bool(x) of a dict: a dict is falsy only when it is empty.
Truthy(d) == DOMAIN d # {}

(***************************************************************************)
(* Configuration                                                           *)
(***************************************************************************)
\* A Python dict as the program uses self.servers: shape "dict" with its keys in
\* insertion order and its values; shape "None" and "list" are the values JSON null and a
\* JSON array leave in self.servers.
MkDict(order, defs) == [shape |-> "dict", order |-> order, defs |-> defs]
EmptyDict == MkDict(<<>>, <<>>)
NotADict(sh) == [shape |-> sh, order |-> <<>>, defs |-> <<>>]

\* d[k] = v on an ordered dict.
DictPut(d, k, v) ==
    MkDict(IF k \in DOMAIN d.defs THEN d.order ELSE Append(d.order, k), Put(d.defs, k, v))

\* One server definition: its command ("" when the key is absent or empty) and its
\* enabled flag.
Def(cmd, en) == [command |-> cmd, enabled |-> en]

\* The dict a JSON object <<name, definition>>, ... parses to.
RECURSIVE FromPairs(_)
FromPairs(ps) ==
    IF ps = <<>> THEN EmptyDict
    ELSE DictPut(FromPairs(SubSeq(ps, 1, Len(ps) - 1)), ps[Len(ps)][1], ps[Len(ps)][2])

\* What a candidate path holds: no file; a file that open() or json.load() fails on; a
\* JSON object with neither key; one with "mcpServers" or with "providers", the value
\* under the key being a JSON "object" (its items in order), "null" or an "array".
Missing == [kind |-> "missing", json |-> "-", items |-> <<>>]
Malformed == [kind |-> "malformed", json |-> "-", items |-> <<>>]
OtherJson == [kind |-> "other", json |-> "-", items |-> <<>>]
McpFile(j, items) == [kind |-> "mcpServers", json |-> j, items |-> items]
ProvFile(j, items) == [kind |-> "providers", json |-> j, items |-> items]

\* A provider of the custom format: a JSON object with its enabled flag (True when the
\* key is absent), or a value that is no object (obj = FALSE).
Provider(n, obj, en) == [name |-> n, obj |-> obj, enabled |-> en]

\* Lines 82-109: the loop over providers.items(), from the dict built so far; a provider
\* that is no object makes provider.get raise, with the dict left as built up to there.
RECURSIVE ConvertProviders(_, _)
ConvertProviders(ps, d) ==
    IF ps = <<>> THEN [servers |-> d, loaded |-> TRUE]
    ELSE IF ~ps[1].obj THEN [servers |-> d, loaded |-> FALSE]
    ELSE ConvertProviders(Tail(ps),
                          IF ps[1].enabled THEN DictPut(d, ps[1].name, Def("npx", TRUE))
                          ELSE d)

\* One round that converts the providers into the dict the earlier rounds left, without
\* the reset of line 80.
LoadPathMerges(f, cur) ==
    IF f.kind \in {"missing", "malformed", "other"}
    THEN [servers |-> cur, loaded |-> FALSE]
    ELSE IF f.kind = "mcpServers"
    THEN IF f.json = "null" THEN [servers |-> NotADict("None"), loaded |-> FALSE]
         ELSE IF f.json = "array" THEN [servers |-> NotADict("list"), loaded |-> TRUE]
         ELSE [servers |-> FromPairs(f.items), loaded |-> TRUE]
    ELSE IF f.json # "object" THEN [servers |-> cur, loaded |-> FALSE]
         ELSE ConvertProviders(f.items, IF cur.shape = "dict" THEN cur ELSE EmptyDict)

\* Lines 66-115, one round of the loop over config_paths: the value of self.servers
\* after the round and whether config_loaded was set (and the loop left by break).
LoadPath(f, cur) ==
    IF f.kind \in {"missing", "malformed", "other"}
    THEN [servers |-> cur, loaded |-> FALSE]
    ELSE IF f.kind = "mcpServers"
    THEN \* line 73 assigns whatever is under the key; len() of None raises at line 74
         IF f.json = "null" THEN [servers |-> NotADict("None"), loaded |-> FALSE]
         ELSE IF f.json = "array" THEN [servers |-> NotADict("list"), loaded |-> TRUE]
         ELSE [servers |-> FromPairs(f.items), loaded |-> TRUE]
    ELSE \* line 80 empties self.servers before providers.items() is called at line 82
         IF f.json # "object" THEN [servers |-> EmptyDict, loaded |-> FALSE]
         ELSE ConvertProviders(f.items, EmptyDict)

\* Lines 119-144: the built-in configuration.
DefaultOrder == <<"brave-search", "github", "sequential-thinking">>
DefaultServers ==
    MkDict(DefaultOrder,
           [n \in {DefaultOrder[i] : i \in 1..Len(DefaultOrder)} |-> Def("npx", TRUE)])

\* The loop over the paths without the fallback of lines 117-145: what the failed
\* rounds left stays in self.servers.
RECURSIVE LoadFromNoDefault(_, _)
LoadFromNoDefault(files, cur) ==
    IF files = <<>> THEN cur
    ELSE LET r == LoadPath(files[1], cur)
         IN  IF r.loaded THEN r.servers ELSE LoadFromNoDefault(Tail(files), r.servers)

\* load_config: the paths in order until one sets config_loaded, the built-in
\* configuration when none does.
RECURSIVE LoadFrom(_, _)
LoadFrom(files, cur) ==
    IF files = <<>> THEN DefaultServers
    ELSE LET r == LoadPath(files[1], cur)
         IN  IF r.loaded THEN r.servers ELSE LoadFrom(Tail(files), r.servers)

load_config(files) == LoadFrom(files, EmptyDict)

\* _assign_ports that forgets the index: every server gets base_port.
AssignPortsNoIndex(d) == [n \in DOMAIN d.defs |-> BasePort]

\* _assign_ports: base_port + i in insertion order.
_assign_ports(d) == [n \in DOMAIN d.defs |->
                       BasePort + (CHOOSE i \in 1..Len(d.order) : d.order[i] = n) - 1]

\* MCPClient.__init__ on the candidate files: phase "new" before load_config, "loaded"
\* after it, "ready" after _assign_ports and _start_monitoring, "failed" when
\* _assign_ports raised (self.servers.keys() of a list).
NewConf(files) == [phase |-> "new", files |-> files, servers |-> EmptyDict, ports |-> <<>>]

Loaded(cf) == [cf EXCEPT !.phase = "loaded", !.servers = load_config(cf.files)]

Assigned(cf) == IF cf.servers.shape = "dict"
                THEN [cf EXCEPT !.phase = "ready", !.ports = _assign_ports(cf.servers)]
                ELSE [cf EXCEPT !.phase = "failed"]

Constructed(files) == Assigned(Loaded(NewConf(files)))

\* The configuration file of the supervisor's specifications: the servers of
\* ServerOrder in the native format, each with a command, enabled.
StdFiles ==
    <<McpFile("object", [i \in 1..Len(ServerOrder) |-> <<ServerOrder[i], Def("npx", TRUE)>>]),
      Missing, Missing>>

\* Number of candidate paths of self.config_paths when no config_path is given.
NumPaths == 3

\* Contents a candidate path is drawn from.
ConfigFiles ==
    { Missing, Malformed, OtherJson,
      McpFile("null", <<>>), McpFile("array", <<>>), McpFile("object", <<>>),
      McpFile("object", << <<"A", Def("npx", TRUE)>> >>),
      McpFile("object", << <<"A", Def("npx", TRUE)>>, <<"B", Def("npx", FALSE)>> >>),
      McpFile("object", << <<"B", Def("npx", TRUE)>>, <<"A", Def("", TRUE)>> >>),
      ProvFile("null", <<>>),
      ProvFile("object", <<Provider("B", TRUE, TRUE)>>),
      ProvFile("object", <<Provider("A", TRUE, TRUE), Provider("B", TRUE, FALSE)>>),
      ProvFile("object", <<Provider("B", TRUE, TRUE), Provider("A", FALSE, TRUE)>>) }

\* The candidate files of the specification of start_server on a loaded configuration:
\* a native configuration with a disabled server, one with a server without command
\* behind a malformed file, a provider configuration with a disabled provider, no file
\* at all, and a native configuration whose "mcpServers" is an array.
StartFiles ==
    { <<McpFile("object", << <<"A", Def("npx", TRUE)>>, <<"B", Def("npx", FALSE)>> >>),
        Missing, Missing>>,
      <<Malformed,
        McpFile("object", << <<"B", Def("npx", TRUE)>>, <<"A", Def("", TRUE)>> >>),
        Missing>>,
      <<Missing, OtherJson,
        ProvFile("object", <<Provider("A", TRUE, TRUE), Provider("B", TRUE, FALSE)>>)>>,
      <<Missing, Missing, Missing>>,
      <<McpFile("array", <<>>), Missing, Missing>> }

\* self.servers and self.ports.
servers == conf.servers.defs
ports == conf.ports

(***************************************************************************)
(* The machine: child processes and TCP ports                              *)
(***************************************************************************)
\* Launch ids: a start_server call runs Popen at most once, each Popen takes a fresh id;
\* an operation makes one start_server call, start_all_servers one per configured server.
MaxLaunch == IF MaxStarts > MaxOps * Len(ServerOrder) THEN MaxStarts
             ELSE MaxOps * Len(ServerOrder)
Launch == 1..MaxLaunch
\* sigkill: stop_server has sent the process SIGKILL, which has not taken effect yet.
NoChild == [name |-> "-", port |-> 0, st |-> "unborn", bound |-> FALSE, sigkill |-> FALSE]

Exited(k) == child[k].st = "dead"

\* _port_in_use: connect_ex succeeds when something listens on the port.
PortInUse(p) ==
    \/ p \in extBound
    \/ \E k \in Launch : child[k].st = "alive" /\ child[k].bound /\ child[k].port = p

\* The process that accepts a connection to port p, which is in use: a child (its launch
\* id) or an unrelated process (0).
Listener(p) ==
    IF p \in extBound THEN 0
    ELSE CHOOSE k \in Launch : child[k].st = "alive" /\ child[k].bound /\ child[k].port = p

\* No request is in flight.
NoRpc == [st |-> "none", peer |-> 0]

\* The peer of a connection has exited, which breaks the connection; an unrelated
\* process stays.
PeerGone(k) == k # 0 /\ Exited(k)

NoRet == [op |-> "none", name |-> "-", kind |-> "-", log |-> "-",
          server |-> FALSE, tool |-> FALSE, cause |-> FALSE, http |-> 0]

BoolRet(o, n, b, l) == [NoRet EXCEPT !.op = o, !.name = n,
                                      !.kind = IF b THEN "True" ELSE "False", !.log = l]

\* Frame of an operation that calls start_server / stop_server: pre is the process
\* recorded for the target when restart_server was entered (0: none), todo the names the
\* batch loop has still to visit, res the results dict it has built.
NoOuter == [pre |-> 0, todo |-> <<>>, res |-> <<>>]

\* Status of a server as a caller can observe it.
StatusOf(act, procs, n) == IF Has(act, n) THEN "running"
                           ELSE IF Has(procs, n) THEN "starting"
                           ELSE "stopped"

Status(n) == StatusOf(active_servers, processes, n)


(***************************************************************************)
(* Ghost bookkeeping of the callers' observations                          *)
(***************************************************************************)
\* No launch was ever made for n.
NeverStarted(n) == \A k \in Launch : child[k].name # n

\* Progress of the status sequence stopped (1), starting (2), running (3) of the
\* target of a tracked call_tool, given the status after the step.
ObsAdvance(o, s) == IF o = 1 /\ s = "starting" THEN 2
                    ELSE IF o = 2 /\ s = "running" THEN 3
                    ELSE o

ObsStep == obs' = [c \in Callers |->
                     IF pc[c] = "idle" THEN 0
                     ELSE ObsAdvance(obs[c], StatusOf(active_servers', processes', arg[c]))]

(***************************************************************************)
(* Callers                                                                 *)
(***************************************************************************)
\* A caller at "done" has just returned from its operation, ret holding the result. The
\* application takes the result before any other thread moves: taking it touches nothing
\* shared, so it commutes with every other step.
Quiet == \A c \in Callers : pc[c] # "done"

\* The application takes the result of the operation; the caller's locals are gone.
Return(c) ==
    /\ pc[c] = "done"
    /\ pc' = [pc EXCEPT ![c] = "idle"]
    /\ op' = [op EXCEPT ![c] = "none"]
    /\ arg' = [arg EXCEPT ![c] = "-"]
    /\ lport' = [lport EXCEPT ![c] = 0]
    /\ test_port' = [test_port EXCEPT ![c] = 0]
    /\ lproc' = [lproc EXCEPT ![c] = 0]
    /\ ret' = [ret EXCEPT ![c] = NoRet]
    /\ obs' = [obs EXCEPT ![c] = 0]
    /\ outer' = [outer EXCEPT ![c] = NoOuter]
    /\ UNCHANGED <<active_servers, processes, entries, launches, ops, child, handles,
                   extBound, rpc, mon, deadAtPass, dk, clients, conf>>

\* The launch whose log file objects the frame of the start_server or stop_server call
\* of caller c refers to (out_f and err_f, or process_info), 0 when it refers to none:
\* from the opening of the files, or the lookup of the entry, until the call has
\* handed its result to the caller.
FrameOf(c) ==
    IF pc[c] \in {"start_store", "start_grace", "start_activate",
                 "stop_term", "stop_cleanup", "stop_kill"} THEN lproc[c]
    ELSE IF /\ pc[c] \in {"batch_ret", "call_started", "restart_sleep"}
            /\ ret[c].log \in {"error starting", "failed to start", "started",
                                "stopped", "force killed"}
    THEN lproc[c]
    ELSE 0

\* Something still refers to the log file objects of launch k: an entry of processes, a
\* frame of start_server or stop_server, the monitor's loop variable, of the client shown
\* or of another client.
Referenced(k) ==
    \/ \E n \in DOMAIN processes : processes[n].process = k
    \/ \E c \in Callers : FrameOf(c) = k
    \/ mon.info = k
    \/ \E i \in DOMAIN clients.parked :
         \/ \E n \in DOMAIN clients.parked[i].processes :
                clients.parked[i].processes[n].process = k
         \/ clients.parked[i].mon.info = k

\* The log file objects after a step that leaves them as h: an open file object that
\* nothing refers to any more is finalized by the interpreter, its descriptor closed.
Settle(h) ==
    [k \in Launch |-> IF h[k] = "open" /\ ~Referenced(k)' THEN "finalized" ELSE h[k]]

\* The callers are interchangeable slots for the operations in flight (the code keeps
\* nothing per thread between operations): a new operation takes the first idle one.
CallerOrder == <<"c1", "c2">>
FirstIdle ==
    LET idle == {i \in 1..Len(CallerOrder) : pc[CallerOrder[i]] = "idle"}
    IN  IF idle = {} THEN "-" ELSE CallerOrder[CHOOSE i \in idle : \A j \in idle : i <= j]

\* A caller thread of the application enters start_server, stop_server or call_tool.
BeginOp(c) ==
    /\ Quiet
    /\ pc[c] = "idle"
    /\ c = FirstIdle
    /\ ops < MaxOps
    /\ ops' = ops + 1
    /\ \E o \in {"start", "stop", "call"}, n \in AllNames :
         /\ op' = [op EXCEPT ![c] = o]
         /\ arg' = [arg EXCEPT ![c] = n]
         /\ pc' = [pc EXCEPT ![c] = o \o "_check"]
         /\ obs' = [obs EXCEPT ![c] = IF o = "call" /\ n \in Servers /\ NeverStarted(n)
                                            /\ Status(n) = "stopped"
                                      THEN 1 ELSE 0]
    /\ UNCHANGED <<active_servers, processes, entries, launches, child, handles,
                   extBound, lport, lproc, rpc, ret, mon, deadAtPass, dk, clients, test_port, conf, outer>>

\* The operations that loop over server names: start_all_servers, stop_all_servers.
BatchOps == {"start_all", "stop_all"}

\* A caller thread enters start_server for the first configured server.
BeginStart(c) ==
    /\ Quiet
    /\ pc[c] = "idle"
    /\ c = FirstIdle
    /\ ops < MaxStarts
    /\ ops' = ops + 1
    /\ op' = [op EXCEPT ![c] = "start"]
    /\ arg' = [arg EXCEPT ![c] = ServerOrder[1]]
    /\ pc' = [pc EXCEPT ![c] = "start_check"]
    /\ UNCHANGED <<active_servers, processes, entries, launches, child, handles,
                   extBound, lport, lproc, rpc, ret, mon, deadAtPass, obs, dk, clients, test_port, conf, outer>>

\* A caller thread enters start_server for any name, once the client is constructed.
BeginStartAny(c) ==
    /\ Quiet
    /\ conf.phase = "ready"
    /\ pc[c] = "idle"
    /\ c = FirstIdle
    /\ ops < MaxOps
    /\ ops' = ops + 1
    /\ \E n \in AllNames : arg' = [arg EXCEPT ![c] = n]
    /\ op' = [op EXCEPT ![c] = "start"]
    /\ pc' = [pc EXCEPT ![c] = "start_check"]
    /\ UNCHANGED <<active_servers, processes, entries, launches, child, handles,
                   extBound, lport, lproc, rpc, ret, mon, deadAtPass, obs, dk, clients, test_port, outer, conf>>

\* return of start_server: to the application (also as the result of restart_server,
\* line 343), into call_tool (line 398), or into the loop of start_all_servers (line 349).
StartReturn(c, b, l) ==
    /\ ret' = [ret EXCEPT ![c] = BoolRet("start", arg[c], b, l)]
    /\ pc' = [pc EXCEPT ![c] = IF op[c] = "call" THEN "call_started"
                               ELSE IF op[c] \in BatchOps THEN "batch_ret"
                               ELSE "done"]

\* start_server lines 188-198: the two early returns and the port lookup.
StartCheck(c) ==
    /\ Quiet
    /\ pc[c] = "start_check"
    /\ IF ~Has(servers, arg[c])
       THEN StartReturn(c, FALSE, "not found in configuration") /\ UNCHANGED lport
       ELSE IF Has(active_servers, arg[c]) /\ Has(processes, arg[c])
       THEN StartReturn(c, TRUE, "already running") /\ UNCHANGED lport
       ELSE /\ lport' = [lport EXCEPT ![c] =
                           IF Has(ports, arg[c]) THEN ports[arg[c]]
                           ELSE BasePort + Cardinality(DOMAIN active_servers)]
            /\ pc' = [pc EXCEPT ![c] = "start_probe"]
            /\ UNCHANGED ret
    /\ UNCHANGED <<active_servers, processes, entries, launches, ops, child, handles,
                   extBound, op, arg, lproc, rpc, mon, deadAtPass, dk, clients, test_port, conf, outer>>
    /\ ObsStep

\* Lines 212-219 without the test of the command: every definition goes on to Popen.
StartCommandNoTest(c, p) ==
    /\ lport' = [lport EXCEPT ![c] = p]
    /\ pc' = [pc EXCEPT ![c] = "start_spawn"]
    /\ UNCHANGED ret

\* start_server lines 212-219, with the port p to launch on: a definition without
\* command returns False.
StartCommand(c, p) ==
    IF servers[arg[c]].command = ""
    THEN StartReturn(c, FALSE, "no command") /\ lport' = [lport EXCEPT ![c] = p]
    ELSE /\ lport' = [lport EXCEPT ![c] = p]
         /\ pc' = [pc EXCEPT ![c] = "start_spawn"]
         /\ UNCHANGED ret

\* start_server lines 200-203: one connect to the assigned port; when something
\* listens there the scan begins at 3000.
StartProbe(c) ==
    /\ Quiet
    /\ pc[c] = "start_probe"
    /\ IF PortInUse(lport[c])
       THEN /\ test_port' = [test_port EXCEPT ![c] = BasePort]
            /\ pc' = [pc EXCEPT ![c] = "start_scan"]
            /\ UNCHANGED <<lport, ret>>
       ELSE StartCommand(c, lport[c]) /\ UNCHANGED test_port
    /\ UNCHANGED <<active_servers, processes, entries, launches, ops, child, handles,
                   extBound, op, arg, lproc, rpc, mon, deadAtPass, dk, clients, conf, outer>>
    /\ ObsStep

\* start_server lines 204-210, one round of the scan: one connect to test_port; a free
\* port is taken, a busy one leads to the next, the end of range(3000, 3100) to the
\* else of the loop.
StartScan(c) ==
    /\ Quiet
    /\ pc[c] = "start_scan"
    /\ IF ~PortInUse(test_port[c])
       THEN StartCommand(c, test_port[c]) /\ UNCHANGED test_port
       ELSE IF test_port[c] + 1 < ScanEnd
       THEN /\ test_port' = [test_port EXCEPT ![c] = test_port[c] + 1]
            /\ UNCHANGED <<pc, lport, ret>>
       ELSE StartReturn(c, FALSE, "no available port") /\ UNCHANGED <<lport, test_port>>
    /\ UNCHANGED <<active_servers, processes, entries, launches, ops, child, handles,
                   extBound, op, arg, lproc, rpc, mon, deadAtPass, dk, clients, conf, outer>>
    /\ ObsStep

\* start_server lines 232-247: open the log files, Popen. The child runs from here on,
\* before the caller has recorded it. Popen raising returns False (lines 278-280)
\* without closing the two files, which go with the frame.
StartSpawn(c) ==
    /\ Quiet
    /\ pc[c] = "start_spawn"
    /\ LET k == launches + 1 IN
       /\ launches' = k
       /\ lproc' = [lproc EXCEPT ![c] = k]
       /\ \E spawned \in BOOLEAN :
            IF spawned
            THEN /\ child' = [child EXCEPT ![k] = [name |-> arg[c], port |-> lport[c],
                                                   st |-> "alive", bound |-> FALSE,
                                                   sigkill |-> FALSE]]
                 /\ pc' = [pc EXCEPT ![c] = "start_store"]
                 /\ UNCHANGED ret
            ELSE /\ child' = [child EXCEPT ![k] = [name |-> arg[c], port |-> lport[c],
                                                   st |-> "nospawn", bound |-> FALSE,
                                                   sigkill |-> FALSE]]
                 /\ StartReturn(c, FALSE, "error starting")
       /\ UNCHANGED <<active_servers, processes, entries, ops, extBound, op, arg, lport,
                      rpc, mon, deadAtPass, dk, clients, test_port, conf, outer>>
       /\ handles' = Settle([handles EXCEPT ![k] = "open"])
    /\ ObsStep

\* start_server lines 249-258: self.processes[server_name] = {...}, in place of
\* whatever entry the name has by now.
StartStore(c) ==
    /\ Quiet
    /\ pc[c] = "start_store"
    /\ processes' = Put(processes, arg[c], [process |-> lproc[c], port |-> lport[c]])
    /\ entries' = EntriesPut(entries, processes, arg[c])
    /\ pc' = [pc EXCEPT ![c] = "start_grace"]
    /\ UNCHANGED <<active_servers, launches, ops, child, extBound, op, arg, lport, lproc,
                   rpc, ret, mon, deadAtPass, dk, clients, test_port, conf, outer>>
    /\ handles' = Settle(handles)
    /\ ObsStep

\* start_server lines 260-266: after sleep(1), poll once; an exited child closes the
\* files and returns False.
StartGrace(c) ==
    /\ Quiet
    /\ pc[c] = "start_grace"
    /\ IF Exited(lproc[c])
       THEN StartReturn(c, FALSE, "failed to start")
       ELSE pc' = [pc EXCEPT ![c] = "start_activate"] /\ UNCHANGED ret
    /\ UNCHANGED <<active_servers, processes, entries, launches, ops, child, extBound, op,
                   arg, lport, lproc, rpc, mon, deadAtPass, dk, clients, test_port, conf,
                   outer>>
    /\ handles' = Settle(IF Exited(lproc[c]) THEN [handles EXCEPT ![lproc[c]] = "closed"]
                         ELSE handles)
    /\ ObsStep

\* start_server lines 268-276: the child was alive at the poll;
\* self.active_servers[server_name] = {...} and return True.
StartActivate(c) ==
    /\ Quiet
    /\ pc[c] = "start_activate"
    /\ active_servers' = Put(active_servers, arg[c], [port |-> lport[c]])
    /\ StartReturn(c, TRUE, "started")
    /\ UNCHANGED <<processes, entries, launches, ops, child, extBound, op, arg, lport,
                   lproc, rpc, mon, deadAtPass, dk, clients, test_port, conf, outer>>
    /\ handles' = Settle(handles)
    /\ ObsStep

\* Return of stop_server or call_tool: to the application, into restart_server
\* (line 340, which drops the result) or into the loop of stop_all_servers (line 356);
\* an exception passes through restart_server and the loops, which catch nothing.
Finish(c, r) ==
    /\ ret' = [ret EXCEPT ![c] = r]
    /\ pc' = [pc EXCEPT ![c] = IF r.kind = "raised" THEN "done"
                               ELSE IF op[c] = "restart" THEN "restart_sleep"
                               ELSE IF op[c] \in BatchOps THEN "batch_ret"
                               ELSE "done"]

\* An exception that leaves stop_server.
StopRaised(n, e) == [NoRet EXCEPT !.op = "stop", !.name = n, !.kind = "raised", !.log = e]

\* stop_server lines 284-286: a name missing from either dict is not running: False.
StopCheck(c) ==
    /\ Quiet
    /\ pc[c] = "stop_check"
    /\ IF ~Has(active_servers, arg[c]) \/ ~Has(processes, arg[c])
       THEN Finish(c, BoolRet("stop", arg[c], FALSE, "not running"))
       ELSE /\ pc' = [pc EXCEPT ![c] = "stop_lookup"]
            /\ UNCHANGED ret
    /\ UNCHANGED <<active_servers, processes, entries, launches, ops, child, handles,
                   extBound, op, arg, lport, lproc, rpc, mon, deadAtPass, dk, clients, test_port, conf, outer>>
    /\ ObsStep

\* stop_server lines 288-293: process_info = self.processes[server_name], outside the
\* try block, raises KeyError when the name has been popped since the test of line 284.
StopLookup(c) ==
    /\ Quiet
    /\ pc[c] = "stop_lookup"
    /\ IF ~Has(processes, arg[c])
       THEN Finish(c, StopRaised(arg[c], "KeyError")) /\ UNCHANGED lproc
       ELSE /\ lproc' = [lproc EXCEPT ![c] = processes[arg[c]].process]
            /\ pc' = [pc EXCEPT ![c] = "stop_term"]
            /\ UNCHANGED ret
    /\ UNCHANGED <<active_servers, processes, entries, launches, ops, child, handles,
                   extBound, op, arg, lport, rpc, mon, deadAtPass, dk, clients, test_port, conf, outer>>
    /\ ObsStep

\* stop_server lines 307-310: terminate(), then wait(timeout=5): the child exits in
\* time (or had exited already), or the wait raises TimeoutExpired.
StopTerm(c) ==
    /\ Quiet
    /\ pc[c] = "stop_term"
    /\ IF Exited(lproc[c])
       THEN pc' = [pc EXCEPT ![c] = "stop_cleanup"] /\ UNCHANGED child
       ELSE \E intime \in BOOLEAN :
              IF intime
              THEN /\ child' = [child EXCEPT ![lproc[c]].st = "dead", ![lproc[c]].bound = FALSE]
                   /\ pc' = [pc EXCEPT ![c] = "stop_cleanup"]
              ELSE /\ pc' = [pc EXCEPT ![c] = "stop_kill"]
                   /\ UNCHANGED child
    /\ UNCHANGED <<active_servers, processes, entries, launches, ops, handles, extBound,
                   op, arg, lport, lproc, rpc, ret, mon, deadAtPass, dk, clients, test_port, conf, outer>>
    /\ ObsStep

\* stop_server lines 312-323: close the log files, pop both dicts, return True.
StopCleanup(c) ==
    /\ Quiet
    /\ pc[c] = "stop_cleanup"
    /\ active_servers' = Pop(active_servers, arg[c])
    /\ processes' = Pop(processes, arg[c])
    /\ entries' = EntriesPop(entries, arg[c])
    /\ Finish(c, BoolRet("stop", arg[c], TRUE, "stopped"))
    /\ UNCHANGED <<launches, ops, child, extBound, op, arg, lport, lproc, rpc, mon,
                   deadAtPass, dk, clients, test_port, conf, outer>>
    /\ handles' = Settle([handles EXCEPT ![lproc[c]] = "closed"])
    /\ ObsStep

\* stop_server lines 325-330: on TimeoutExpired kill() and return True. kill() sends
\* SIGKILL and returns: the process is not waited for and dies in a later step, so
\* poll() can still find it running. For a process that has exited kill() does nothing.
StopKill(c) ==
    /\ Quiet
    /\ pc[c] = "stop_kill"
    /\ child' = IF Exited(lproc[c]) THEN child
                ELSE [child EXCEPT ![lproc[c]].sigkill = TRUE]
    /\ Finish(c, BoolRet("stop", arg[c], TRUE, "force killed"))
    /\ UNCHANGED <<active_servers, processes, entries, launches, ops, extBound, op, arg,
                   lport, lproc, rpc, mon, deadAtPass, dk, clients, test_port, conf, outer>>
    /\ handles' = Settle(handles)
    /\ ObsStep

\* A caller thread enters stop_server for the first configured server.
BeginStop(c) ==
    /\ Quiet
    /\ pc[c] = "idle"
    /\ c = FirstIdle
    /\ ops < MaxStarts
    /\ ops' = ops + 1
    /\ op' = [op EXCEPT ![c] = "stop"]
    /\ arg' = [arg EXCEPT ![c] = ServerOrder[1]]
    /\ pc' = [pc EXCEPT ![c] = "stop_check"]
    /\ UNCHANGED <<active_servers, processes, entries, launches, child, handles,
                   extBound, lport, lproc, rpc, ret, mon, deadAtPass, obs, dk, clients, test_port, conf, outer>>

\* A caller thread enters restart_server for the first configured server; line 340 calls
\* stop_server.
BeginRestart(c) ==
    /\ Quiet
    /\ pc[c] = "idle"
    /\ c = FirstIdle
    /\ ops < MaxRestarts
    /\ ops' = ops + 1
    /\ LET n == ServerOrder[1] IN
       /\ op' = [op EXCEPT ![c] = "restart"]
       /\ arg' = [arg EXCEPT ![c] = n]
       /\ outer' = [outer EXCEPT ![c].pre =
                       IF Has(active_servers, n) /\ Has(processes, n)
                       THEN processes[n].process ELSE 0]
    /\ pc' = [pc EXCEPT ![c] = "stop_check"]
    /\ UNCHANGED <<active_servers, processes, entries, launches, child, handles,
                   extBound, lport, lproc, rpc, ret, mon, deadAtPass, obs, dk, clients, test_port, conf>>

\* restart_server lines 341-343: whatever stop_server returned, sleep 2 s, then
\* return self.start_server(server_name).
RestartSleep(c) ==
    /\ Quiet
    /\ pc[c] = "restart_sleep"
    /\ pc' = [pc EXCEPT ![c] = "start_check"]
    /\ UNCHANGED <<active_servers, processes, entries, launches, ops, child, extBound, op,
                   arg, lport, lproc, rpc, ret, mon, deadAtPass, dk, clients, test_port, conf,
                   outer>>
    /\ handles' = Settle(handles)
    /\ ObsStep

\* The orders in which a dict with key set S can hold its keys.
KeyOrders(S) ==
    {q \in [1..Cardinality(S) -> S] : \A i, j \in DOMAIN q : i # j => q[i] # q[j]}

\* A caller thread enters start_all_servers (lines 347-348: it will loop over
\* self.servers.keys()) or stop_all_servers (lines 354-355: it will loop over
\* list(self.active_servers.keys()), a snapshot taken now); results = {}. The batch
\* operations are run one after the other, next to the monitor and the children.
BeginBatch(c) ==
    /\ Quiet
    /\ \A d \in Callers : pc[d] = "idle"
    /\ c = FirstIdle
    /\ ops < MaxOps
    /\ ops' = ops + 1
    /\ \E o \in BatchOps :
         /\ op' = [op EXCEPT ![c] = o]
         /\ \E q \in IF o = "start_all" THEN {ServerOrder}
                      ELSE KeyOrders(DOMAIN active_servers) :
              outer' = [outer EXCEPT ![c].todo = q, ![c].res = <<>>]
    /\ pc' = [pc EXCEPT ![c] = "batch_next"]
    /\ UNCHANGED <<active_servers, processes, entries, launches, child, handles,
                   extBound, arg, lport, lproc, rpc, ret, mon, deadAtPass, obs, dk, clients, test_port, conf>>

\* The result of a batch operation: the results dict, kept in outer[c].res.
DictRet(o) == [NoRet EXCEPT !.op = o, !.kind = "dict"]

\* The for statement of lines 348 / 355: the next name goes to start_server or
\* stop_server; when none is left, return results (lines 350 / 357).
BatchNext(c) ==
    /\ Quiet
    /\ pc[c] = "batch_next"
    /\ IF outer[c].todo = <<>>
       THEN /\ ret' = [ret EXCEPT ![c] = DictRet(op[c])]
            /\ pc' = [pc EXCEPT ![c] = "done"]
            /\ UNCHANGED arg
       ELSE /\ arg' = [arg EXCEPT ![c] = Head(outer[c].todo)]
            /\ pc' = [pc EXCEPT ![c] = IF op[c] = "start_all" THEN "start_check"
                                       ELSE "stop_check"]
            /\ UNCHANGED ret
    /\ UNCHANGED <<active_servers, processes, entries, launches, ops, child, handles,
                   extBound, op, lport, lproc, rpc, mon, deadAtPass, obs, dk, clients, test_port, conf, outer>>

\* Lines 349 / 356: results[server_name] = what the callee returned.
BatchCollect(c) ==
    /\ Quiet
    /\ pc[c] = "batch_ret"
    /\ outer' = [outer EXCEPT ![c].res = Put(@, arg[c], ret[c].kind),
                              ![c].todo = Tail(@)]
    /\ pc' = [pc EXCEPT ![c] = "batch_next"]
    /\ UNCHANGED <<active_servers, processes, entries, launches, ops, child, extBound, op,
                   arg, lport, lproc, rpc, ret, mon, deadAtPass, obs, dk, clients, test_port, conf>>
    /\ handles' = Settle(handles)

\* {"error": f"Failed to start MCP server {server_name}"}
ErrStart(n) == [NoRet EXCEPT !.op = "call", !.name = n, !.kind = "error",
                             !.log = "failed to start", !.server = TRUE]

\* {"error": str(e)}
ErrCause(n, l) == [NoRet EXCEPT !.op = "call", !.name = n, !.kind = "error",
                                !.log = l, !.cause = TRUE]

\* An exception that leaves call_tool.
Raised(n, e) == [NoRet EXCEPT !.op = "call", !.name = n, !.kind = "raised", !.log = e]

\* response.json() handed back as it is.
Payload(n, status) == [NoRet EXCEPT !.op = "call", !.name = n, !.kind = "json",
                                    !.log = "response", !.http = status]

\* call_tool without the on-demand start of lines 397-399.
CallCheckNoStart(c) ==
    /\ Quiet
    /\ pc[c] = "call_check"
    /\ pc' = [pc EXCEPT ![c] = "call_lookup"]
    /\ UNCHANGED <<active_servers, processes, entries, launches, ops, child, handles,
                   extBound, op, arg, lport, lproc, rpc, ret, mon, deadAtPass, dk, clients, test_port, conf, outer>>
    /\ ObsStep

\* call_tool line 397: a server that is not in active_servers is started first.
CallCheck(c) ==
    /\ Quiet
    /\ pc[c] = "call_check"
    /\ pc' = [pc EXCEPT ![c] = IF Has(active_servers, arg[c]) THEN "call_lookup"
                               ELSE "start_check"]
    /\ UNCHANGED <<active_servers, processes, entries, launches, ops, child, handles,
                   extBound, op, arg, lport, lproc, rpc, ret, mon, deadAtPass, dk, clients, test_port, conf, outer>>
    /\ ObsStep

\* call_tool that does not look at what start_server returned.
CallLookupIgnoresStart(c) ==
    /\ Quiet
    /\ pc[c] \in {"call_started", "call_lookup"}
    /\ IF ~Has(active_servers, arg[c])
       THEN Finish(c, Raised(arg[c], "KeyError")) /\ UNCHANGED lport
       ELSE /\ lport' = [lport EXCEPT ![c] = active_servers[arg[c]].port]
            /\ pc' = [pc EXCEPT ![c] = "call_post"]
            /\ ret' = [ret EXCEPT ![c] = NoRet]
    /\ UNCHANGED <<active_servers, processes, entries, launches, ops, child, extBound, op,
                   arg, lproc, rpc, mon, deadAtPass, dk, clients, test_port, conf, outer>>
    /\ handles' = Settle(handles)
    /\ ObsStep

\* call_tool lines 398-405: give up when the start failed; else
\* server = self.active_servers[server_name], which raises KeyError for a missing key.
CallLookup(c) ==
    /\ Quiet
    /\ pc[c] \in {"call_started", "call_lookup"}
    /\ IF pc[c] = "call_started" /\ ret[c].kind = "False"
       THEN Finish(c, ErrStart(arg[c])) /\ UNCHANGED lport
       ELSE IF ~Has(active_servers, arg[c])
       THEN Finish(c, Raised(arg[c], "KeyError")) /\ UNCHANGED lport
       ELSE IF active_servers[arg[c]].port = 0
       THEN Finish(c, [ErrStart(arg[c]) EXCEPT !.log = "not properly initialized"])
            /\ UNCHANGED lport
       ELSE /\ lport' = [lport EXCEPT ![c] = active_servers[arg[c]].port]
            /\ pc' = [pc EXCEPT ![c] = "call_post"]
            /\ ret' = [ret EXCEPT ![c] = NoRet]
    /\ UNCHANGED <<active_servers, processes, entries, launches, ops, child, extBound, op,
                   arg, lproc, rpc, mon, deadAtPass, dk, clients, test_port, conf, outer>>
    /\ handles' = Settle(handles)
    /\ ObsStep

\* call_tool line 414, the request going out: requests.post(url, json=payload), no timeout.
\* Nothing listening refuses the connection; a listener answers, or accepts and never answers.
CallPost(c) ==
    /\ Quiet
    /\ pc[c] = "call_post"
    /\ IF PortInUse(lport[c])
       THEN \E r \in {"sent", "hung"} :
              rpc' = [rpc EXCEPT ![c] = [st |-> r, peer |-> Listener(lport[c])]]
       ELSE rpc' = [rpc EXCEPT ![c] = [st |-> "refused", peer |-> 0]]
    /\ pc' = [pc EXCEPT ![c] = "call_wait"]
    /\ UNCHANGED <<active_servers, processes, entries, launches, ops, child, handles,
                   extBound, op, arg, lport, lproc, ret, mon, deadAtPass, dk, clients, test_port, conf, outer>>
    /\ ObsStep

\* What a listener that answers can send back.
RpcOutcomes == {"200json", "500json", "500text"}

\* call_tool that gives up on the server after any request: the entry is dropped from
\* active_servers and an error returned.
CallReturnDropsServer(c) ==
    /\ Quiet
    /\ pc[c] = "call_wait"
    /\ rpc[c].st = "hung" => PeerGone(rpc[c].peer)
    /\ Finish(c, ErrCause(arg[c], "request failed"))
    /\ rpc' = [rpc EXCEPT ![c] = NoRpc]
    /\ active_servers' = Pop(active_servers, arg[c])
    /\ UNCHANGED <<processes, entries, launches, ops, child, handles,
                   extBound, op, arg, lport, lproc, mon, deadAtPass, dk, clients, test_port, conf, outer>>
    /\ ObsStep

\* call_tool lines 414-419, the request coming back: return response.json() whatever
\* the status; any exception becomes {"error": str(e)}. A request that is never
\* answered ends only when the process that accepted it exits, whoever holds the
\* port by then.
CallReturn(c) ==
    /\ Quiet
    /\ pc[c] = "call_wait"
    /\ CASE rpc[c].st = "refused" -> Finish(c, ErrCause(arg[c], "connection refused"))
         [] rpc[c].st = "hung" -> /\ PeerGone(rpc[c].peer)
                                  /\ Finish(c, ErrCause(arg[c], "connection reset"))
         [] rpc[c].st = "sent" ->
              \E o \in RpcOutcomes :
                CASE o = "200json" -> Finish(c, Payload(arg[c], 200))
                  [] o = "500json" -> Finish(c, Payload(arg[c], 500))
                  [] OTHER -> Finish(c, ErrCause(arg[c], "json decode error"))
    /\ rpc' = [rpc EXCEPT ![c] = NoRpc]
    /\ UNCHANGED <<active_servers, processes, entries, launches, ops, child, handles,
                   extBound, op, arg, lport, lproc, mon, deadAtPass, dk, clients, test_port, conf, outer>>
    /\ ObsStep


(***************************************************************************)
(* get_server_status                                                       *)
(***************************************************************************)
\* The status dict get_server_status returns: log is "not found" (exists False),
\* "stopped" (running False), "exited" (running False with exit_code) or "running"
\* (running True with url, port and uptime).
StatusRet(n, l) == [NoRet EXCEPT !.op = "status", !.name = n, !.kind = "status", !.log = l]

\* An exception that leaves get_server_status.
StatusRaised(n, e) == [NoRet EXCEPT !.op = "status", !.name = n, !.kind = "raised", !.log = e]

\* A caller thread enters get_server_status.
BeginStatus(c) ==
    /\ Quiet
    /\ pc[c] = "idle"
    /\ c = FirstIdle
    /\ ops < MaxOps
    /\ ops' = ops + 1
    /\ \E n \in AllNames : arg' = [arg EXCEPT ![c] = n]
    /\ op' = [op EXCEPT ![c] = "status"]
    /\ pc' = [pc EXCEPT ![c] = "status_check"]
    /\ UNCHANGED <<active_servers, processes, entries, launches, child, handles,
                   extBound, lport, lproc, rpc, ret, mon, deadAtPass, obs, dk, clients, test_port, outer, conf>>

\* Lines 361-371: the configuration test and server_running.
StatusCheck(c) ==
    /\ Quiet
    /\ pc[c] = "status_check"
    /\ IF ~Has(servers, arg[c])
       THEN Finish(c, StatusRet(arg[c], "not found"))
       ELSE IF ~(Has(active_servers, arg[c]) /\ Has(processes, arg[c]))
       THEN Finish(c, StatusRet(arg[c], "stopped"))
       ELSE /\ pc' = [pc EXCEPT ![c] = "status_read"]
            /\ UNCHANGED ret
    /\ UNCHANGED <<active_servers, processes, entries, launches, ops, child, handles,
                   extBound, op, arg, lport, lproc, rpc, mon, deadAtPass, obs, dk, clients, test_port, outer,
                   conf>>

\* Lines 372-385: the two lookups, the poll, the result.
StatusRead(c) ==
    /\ Quiet
    /\ pc[c] = "status_read"
    /\ IF ~Has(processes, arg[c]) \/ ~Has(active_servers, arg[c])
       THEN Finish(c, StatusRaised(arg[c], "KeyError"))
       ELSE IF Exited(processes[arg[c]].process)
       THEN Finish(c, StatusRet(arg[c], "exited"))
       ELSE Finish(c, StatusRet(arg[c], "running"))
    /\ UNCHANGED <<active_servers, processes, entries, launches, ops, child, handles,
                   extBound, op, arg, lport, lproc, rpc, mon, deadAtPass, obs, dk, clients, test_port, outer,
                   conf>>

(***************************************************************************)
(* The monitor thread, _monitor_servers                                    *)
(***************************************************************************)
\* mon.pc: "sleep" (time.sleep(10)), "iter" (in the for loop, before the next item),
\* "reap" (an exited process was seen, before the two pops), "dead" (the thread ended
\* with an uncaught exception). mon.used and mon.left are the dict iterator's di_used
\* and len, mon.pos its index into the entry array, mon.cur the loop's server_name,
\* mon.info the launch whose entry the loop variable process_info refers to (0: none);
\* the variable keeps its value after the loop, and goes with the thread's frame.
MonIdle == [pc |-> "sleep", used |-> 0, left |-> 0, pos |-> 0, cur |-> "-", info |-> 0]

\* Launch ids that active_servers tracks (through processes) and that have exited.
DeadTracked == {k \in Launch : /\ Exited(k)
                               /\ \E n \in DOMAIN active_servers :
                                     Has(processes, n) /\ processes[n].process = k}

\* Index of the next live slot of the entry array after position i, 0 when there is none.
NextSlot(es, i) ==
    LET live == {j \in (i + 1)..Len(es) : es[j] # Dummy}
    IN  IF live = {} THEN 0 ELSE CHOOSE j \in live : \A h \in live : j <= h

\* The iterator's next() and lines 171-172, for an iterator that has di_used = used,
\* len = left and stands at index pos: RuntimeError when the dict changed size (or more
\* items come than it had), the end of the pass, or the poll of the next item.
IterNext(used, left, pos) ==
    LET j == NextSlot(entries, pos) IN
    IF Cardinality(DOMAIN processes) # used
    THEN [MonIdle EXCEPT !.pc = "dead"]
    ELSE IF j = 0
    THEN [MonIdle EXCEPT !.info = mon.info]
    ELSE IF left = 0
    THEN [MonIdle EXCEPT !.pc = "dead"]
    ELSE IF Exited(processes[entries[j]].process)
    THEN [pc |-> "reap", used |-> used, left |-> left - 1, pos |-> j, cur |-> entries[j],
          info |-> processes[entries[j]].process]
    ELSE [pc |-> "iter", used |-> used, left |-> left - 1, pos |-> j, cur |-> "-",
          info |-> processes[entries[j]].process]

\* while self.running: for ... in self.processes.items(): after the sleep a pass begins
\* (line 170), the iterator is made and asked for its first item.
MonBegin ==
    /\ Quiet
    /\ mon.pc = "sleep"
    /\ mon' = IterNext(Cardinality(DOMAIN processes), Cardinality(DOMAIN processes), 0)
    /\ deadAtPass' = IF mon'.pc \in {"sleep", "dead"} THEN {} ELSE DeadTracked
    /\ UNCHANGED <<active_servers, processes, entries, launches, ops, child, extBound, pc,
                   op, arg, lport, lproc, rpc, ret, obs, dk, clients, test_port, conf, outer>>
    /\ handles' = Settle(handles)

\* The for loop comes back to the iterator for the next item.
MonNext ==
    /\ Quiet
    /\ mon.pc = "iter"
    /\ mon' = IterNext(mon.used, mon.left, mon.pos)
    /\ deadAtPass' = IF mon'.pc \in {"sleep", "dead"} THEN {} ELSE deadAtPass
    /\ UNCHANGED <<active_servers, processes, entries, launches, ops, child, extBound, pc,
                   op, arg, lport, lproc, rpc, ret, obs, dk, clients, test_port, conf, outer>>
    /\ handles' = Settle(handles)

\* Lines 173-175: after the warning, pop the name from both dicts.
MonReap ==
    /\ Quiet
    /\ mon.pc = "reap"
    /\ active_servers' = Pop(active_servers, mon.cur)
    /\ processes' = Pop(processes, mon.cur)
    /\ entries' = EntriesPop(entries, mon.cur)
    /\ mon' = [mon EXCEPT !.pc = "iter", !.cur = "-"]
    /\ UNCHANGED <<launches, ops, child, extBound, pc, op, arg, lport, lproc, rpc, ret,
                   deadAtPass, dk, clients, test_port, conf, outer>>
    /\ handles' = Settle(handles)
    /\ ObsStep

(***************************************************************************)
(* The child processes                                                     *)
(***************************************************************************)
\* A live child starts listening on the port it was given in PORT.
ChildBind(k) ==
    /\ Quiet
    /\ child[k].st = "alive"
    /\ ~child[k].bound
    /\ ~PortInUse(child[k].port)
    /\ child' = [child EXCEPT ![k].bound = TRUE]
    /\ UNCHANGED <<active_servers, processes, entries, launches, ops, handles, extBound,
                   pc, op, arg, lport, lproc, rpc, ret, mon, deadAtPass, obs, dk, clients, test_port, conf, outer>>

\* A live child exits: a crash, a failed start, a kill from outside, or the SIGKILL of
\* stop_server taking effect.
ChildExit(k) ==
    /\ Quiet
    /\ child[k].st = "alive"
    /\ child' = [child EXCEPT ![k].st = "dead", ![k].bound = FALSE, ![k].sigkill = FALSE]
    /\ UNCHANGED <<active_servers, processes, entries, launches, ops, handles, extBound,
                   pc, op, arg, lport, lproc, rpc, ret, mon, deadAtPass, obs, dk, clients, test_port, conf, outer>>

(***************************************************************************)
(* get_mcp_client and the module global _mcp_client                        *)
(***************************************************************************)
\* get_mcp_client can make one client per thread that calls it.
ClientIds == 1..Cardinality(Callers)

\* The fields of an MCPClient as __init__ leaves them, the monitor thread started.
FreshClient ==
    [active_servers |-> <<>>, processes |-> <<>>, entries |-> <<>>,
     mon |-> MonIdle, deadAtPass |-> {}, conf |-> Constructed(StdFiles)]

\* The fields of the client the variables show.
ShownClient ==
    [active_servers |-> active_servers, processes |-> processes, entries |-> entries,
     mon |-> mon, deadAtPass |-> deadAtPass, conf |-> conf]

\* clients.global: the module global _mcp_client, 0 for None, else the number of the
\* client it refers to. clients.made: how many clients were constructed. clients.pc[c]:
\* where thread c is in get_mcp_client ("out": not called, "have": returned).
\* clients.held[c]: the client get_mcp_client returned to c. clients.cur: the client
\* whose fields the variables active_servers, processes, entries, mon, deadAtPass and
\* conf show; clients.parked[i]: the fields of client i while another one is shown (for
\* a client that is shown or not made, the fields of a fresh client).
NoClients ==
    [global |-> 0, made |-> 0,
     pc |-> [c \in Callers |-> "out"],
     held |-> [c \in Callers |-> 0],
     cur |-> 0,
     parked |-> [i \in ClientIds |-> FreshClient]]

\* The application as app.py runs it: get_mcp_client() is called once, at import
\* (app.py line 75), and every request thread uses that client.
OneClient ==
    [NoClients EXCEPT !.global = 1, !.made = 1, !.cur = 1,
                      !.pc = [c \in Callers |-> "have"],
                      !.held = [c \in Callers |-> 1]]

\* Thread c works on the client the variables show.
OnClient(c) == clients.pc[c] = "have" /\ clients.held[c] = clients.cur

\* get_mcp_client line 455: if _mcp_client is None.
GetCheck(c) ==
    /\ clients.pc[c] = "out"
    /\ clients' = [clients EXCEPT !.pc[c] = IF clients.global = 0 THEN "create" ELSE "ret"]
    /\ UNCHANGED <<active_servers, processes, entries, launches, ops, child, handles,
                   extBound, pc, op, arg, lport, test_port, lproc, rpc, ret, mon,
                   deadAtPass, obs, dk, outer, conf>>

\* get_mcp_client lines 456-458: _mcp_client = MCPClient(...), a new client whatever
\* the global has become since the test; the first client made is the one shown.
GetCreate(c) ==
    /\ clients.pc[c] = "create"
    /\ clients' = [clients EXCEPT !.pc[c] = "ret",
                                  !.made = @ + 1,
                                  !.global = clients.made + 1,
                                  !.cur = IF clients.made = 0 THEN 1 ELSE @]
    /\ UNCHANGED <<active_servers, processes, entries, launches, ops, child, handles,
                   extBound, pc, op, arg, lport, test_port, lproc, rpc, ret, mon,
                   deadAtPass, obs, dk, outer, conf>>

\* get_mcp_client line 459: return _mcp_client, the global as it is now.
GetReturn(c) ==
    /\ clients.pc[c] = "ret"
    /\ clients' = [clients EXCEPT !.pc[c] = "have", !.held[c] = clients.global]
    /\ UNCHANGED <<active_servers, processes, entries, launches, ops, child, handles,
                   extBound, pc, op, arg, lport, test_port, lproc, rpc, ret, mon,
                   deadAtPass, obs, dk, outer, conf>>

\* The variables turn to client j: no step of the program, the fields of the client
\* shown are put aside and those of j taken up.
ShowClient(j) ==
    /\ clients.cur # 0
    /\ j \in 1..clients.made
    /\ j # clients.cur
    /\ clients' = [clients EXCEPT !.cur = j,
                                  !.parked[clients.cur] = ShownClient,
                                  !.parked[j] = FreshClient]
    /\ active_servers' = clients.parked[j].active_servers
    /\ processes' = clients.parked[j].processes
    /\ entries' = clients.parked[j].entries
    /\ mon' = clients.parked[j].mon
    /\ deadAtPass' = clients.parked[j].deadAtPass
    /\ conf' = clients.parked[j].conf
    /\ UNCHANGED <<launches, ops, child, handles, extBound, pc, op, arg, lport, test_port,
                   lproc, rpc, ret, obs, dk, outer>>

\* A thread enters start_server for the first configured server on the client it got
\* from get_mcp_client.
BeginStartOn(c) ==
    /\ Quiet
    /\ OnClient(c)
    /\ pc[c] = "idle"
    /\ ops < MaxOps
    /\ ops' = ops + 1
    /\ op' = [op EXCEPT ![c] = "start"]
    /\ arg' = [arg EXCEPT ![c] = ServerOrder[1]]
    /\ pc' = [pc EXCEPT ![c] = "start_check"]
    /\ UNCHANGED <<active_servers, processes, entries, launches, child, handles,
                   extBound, lport, lproc, rpc, ret, mon, deadAtPass, obs, dk, clients,
                   test_port, conf, outer>>

(***************************************************************************)
(* The Docker routers: DockerMCPManager and DockerMCPHandler               *)
(***************************************************************************)
Routers == {"manager", "handler"}
\* The docker server of the 'mcps' configuration, and a name that is not in it.
DockerServers == {"D"}
DockerNames == DockerServers \cup {"U"}

\* The docker servers in the order of self.docker_servers.
DockerOrder == <<"D">>

\* dk.available: the docker command works. dk.containers: containers running in the
\* daemon; dk.stopped: containers that exist and do not run. dk.active[r]: active_servers / active_containers of router r. Per router:
\* pc, the operation it runs, server_name, the servers a refresh has still to look at,
\* the result of the on-demand start, what docker stop answered, whether the HTTP
\* request of this call went out, and what the operation returned.
NoStart == <<>>
NoQuery == [kind |-> "-", why |-> "-"]

DkInit(avail, running) ==
    [available |-> avail,
     containers |-> running,
     stopped |-> {},
     active |-> [r \in Routers |-> IF avail THEN running ELSE {}],
     pc |-> [r \in Routers |-> "idle"],
     op |-> [r \in Routers |-> "-"],
     name |-> [r \in Routers |-> "-"],
     todo |-> [r \in Routers |-> <<>>],
     sres |-> [r \in Routers |-> NoStart],
     stop_result |-> [r \in Routers |-> "-"],
     sent |-> [r \in Routers |-> FALSE],
     ret |-> [r \in Routers |-> NoQuery]]

\* self.docker_servers: the manager fills it from the configuration; the handler only
\* when docker was available at construction (lines 32-37).
docker_servers(r) == IF r = "handler" /\ ~dk.available THEN {} ELSE DockerServers

\* check_server_running / is_container_running: docker ps names the container; a failing
\* docker command counts as not running.
ContainerRunning(n) == dk.available /\ n \in dk.containers

\* The test send_query makes on what the on-demand start returned:
\* the manager reads start_result['success'] (line 257),
ManagerStartFailed(res) == ~res.success

\* the handler tests the returned dict itself (line 367), and a dict with keys is truthy.
HandlerStartFailed(res) == ~Truthy(res)

StartFailed(r, res) == IF r = "manager" THEN ManagerStartFailed(res)
                       ELSE HandlerStartFailed(res)

\* {'success': ..., 'message' / 'error': ...} as the caller of an operation gets it.
DockerRet(ok, why) == [kind |-> IF ok THEN "ok" ELSE "error", why |-> why]

\* A caller enters send_query(server_name, query, params).
DqBegin(r) ==
    /\ dk.pc[r] = "idle"
    /\ \E n \in DockerNames :
         dk' = [dk EXCEPT !.pc[r] = "check", !.op[r] = "query", !.name[r] = n,
                          !.sres[r] = NoStart, !.sent[r] = FALSE, !.ret[r] = NoQuery]
    /\ UNCHANGED mcpVars

\* send_query up to the running check (manager lines 246-255, handler lines 361-365).
DqCheck(r) ==
    /\ dk.pc[r] = "check"
    /\ dk' = IF dk.name[r] \notin docker_servers(r)
             THEN [dk EXCEPT !.pc[r] = "idle",
                             !.ret[r] = [kind |-> "error", why |-> "not found in configuration"]]
             ELSE IF ContainerRunning(dk.name[r])
             THEN [dk EXCEPT !.pc[r] = "post"]
             ELSE [dk EXCEPT !.pc[r] = "start"]
    /\ UNCHANGED mcpVars

\* A caller enters start_server(server_name) of the manager or start_container of the
\* handler directly.
DtBegin(r) ==
    /\ dk.pc[r] = "idle"
    /\ \E n \in DockerNames :
         dk' = [dk EXCEPT !.pc[r] = "start", !.op[r] = "start", !.name[r] = n,
                          !.sres[r] = NoStart, !.sent[r] = FALSE, !.ret[r] = NoQuery]
    /\ UNCHANGED mcpVars

\* The result of start_server / start_container goes to send_query (the on-demand start)
\* or to the caller of the operation.
DtReturn(r, d, res) ==
    IF dk.op[r] = "query"
    THEN [d EXCEPT !.pc[r] = "started", !.sres[r] = res]
    ELSE [d EXCEPT !.pc[r] = "idle", !.ret[r] = DockerRet(res.success, res.error)]

\* start_server up to its docker ps (manager lines 146-152) / start_container (handler
\* lines 145-171): a name that is not configured (for the handler also: docker missing)
\* returns success False; a running container returns success, the handler adding the
\* name; else the manager goes on to docker run and the handler to docker rm.
DqStart(r) ==
    /\ dk.pc[r] = "start"
    /\ dk' = IF dk.name[r] \notin docker_servers(r)
             THEN DtReturn(r, dk, [success |-> FALSE, error |-> "not found in configuration"])
             ELSE IF ContainerRunning(dk.name[r])
             THEN DtReturn(r, [dk EXCEPT !.active[r] = IF r = "handler"
                                                        THEN @ \cup {dk.name[r]} ELSE @],
                           [success |-> TRUE, error |-> ""])
             ELSE [dk EXCEPT !.pc[r] = IF r = "handler" THEN "rm" ELSE "run"]
    /\ UNCHANGED mcpVars

\* start_container lines 173-196: docker rm of the container name, which removes a
\* container that exists and does not run; the answer is only logged.
DtRemove(r) ==
    /\ dk.pc[r] = "rm"
    /\ dk' = [dk EXCEPT !.pc[r] = "pull", !.stopped = @ \ {dk.name[r]}]
    /\ UNCHANGED mcpVars

\* start_container lines 198-210: docker pull; a failed pull returns success False.
DtPull(r) ==
    /\ dk.pc[r] = "pull"
    /\ \E pulled \in BOOLEAN :
         dk' = IF pulled
               THEN [dk EXCEPT !.pc[r] = "run"]
               ELSE DtReturn(r, dk, [success |-> FALSE,
                                     error |-> "Failed to pull Docker image"])
    /\ UNCHANGED mcpVars

\* docker run --name (manager lines 160-190, handler lines 212-259): it fails when the
\* docker command is missing, when a container of that name exists, running or not, and
\* for any other reason; when it succeeds the container runs, the name is added and
\* success returned.
DtRun(r) ==
    /\ dk.pc[r] = "run"
    /\ \E ran \in BOOLEAN :
         dk' = IF /\ ran
                  /\ dk.available
                  /\ dk.name[r] \notin dk.containers \cup dk.stopped
               THEN DtReturn(r, [dk EXCEPT !.containers = @ \cup {dk.name[r]},
                                           !.active[r] = @ \cup {dk.name[r]}],
                             [success |-> TRUE, error |-> ""])
               ELSE DtReturn(r, dk, [success |-> FALSE,
                                     error |-> "Failed to start Docker MCP server"])
    /\ UNCHANGED mcpVars

\* send_query after the start returned (manager lines 257-261, handler lines 367-371).
DqStarted(r) ==
    /\ dk.pc[r] = "started"
    /\ dk' = IF StartFailed(r, dk.sres[r])
             THEN [dk EXCEPT !.pc[r] = "idle",
                             !.ret[r] = [kind |-> "error", why |-> "failed to start"]]
             ELSE [dk EXCEPT !.pc[r] = "post"]
    /\ UNCHANGED mcpVars

\* requests.post(url, json=data, timeout=10) and the return (manager lines 264-281,
\* handler lines 374-391): status 200 is the result, any other status and any
\* exception (refused, timed out) an error.
DqPost(r) ==
    /\ dk.pc[r] = "post"
    /\ \E o \in {"200", "500", "exception"} :
         dk' = [dk EXCEPT !.pc[r] = "idle", !.sent[r] = TRUE,
                          !.ret[r] = IF o = "200" /\ ContainerRunning(dk.name[r])
                                     THEN [kind |-> "ok", why |-> "response"]
                                     ELSE [kind |-> "error",
                                           why |-> IF ContainerRunning(dk.name[r])
                                                   THEN o ELSE "exception"]]
    /\ UNCHANGED mcpVars

\* A caller enters stop_server(server_name) of the manager or stop_container of the
\* handler.
DsBegin(r) ==
    /\ dk.pc[r] = "idle"
    /\ \E n \in DockerNames :
         dk' = [dk EXCEPT !.pc[r] = "stop_check", !.op[r] = "stop", !.name[r] = n,
                          !.sres[r] = NoStart, !.sent[r] = FALSE, !.ret[r] = NoQuery]
    /\ UNCHANGED mcpVars

\* stop_server up to the running check (manager lines 201-207): a name that is not
\* configured is an error, a container that is not running is a success that leaves
\* active_servers alone. stop_container (handler lines 270-296): docker missing or a
\* name that is not configured is an error, a container that is not running a success
\* that discards the name from active_containers.
DsCheck(r) ==
    /\ dk.pc[r] = "stop_check"
    /\ dk' = IF dk.name[r] \notin docker_servers(r)
             THEN [dk EXCEPT !.pc[r] = "idle",
                             !.ret[r] = DockerRet(FALSE, "not found in configuration")]
             ELSE IF ~ContainerRunning(dk.name[r])
             THEN [dk EXCEPT !.pc[r] = "idle",
                             !.active[r] = IF r = "handler" THEN @ \ {dk.name[r]} ELSE @,
                             !.ret[r] = DockerRet(TRUE, "not running")]
             ELSE [dk EXCEPT !.pc[r] = "stop_run"]
    /\ UNCHANGED mcpVars

\* What docker stop can answer: "0" the container is stopped (or had stopped by itself),
\* "gone" No such container, "failed" any other failure.
StopAnswers(n) ==
    IF n \in dk.containers \cup dk.stopped THEN {"0", "failed"} ELSE {"gone", "failed"}

\* docker stop (manager lines 210-216, handler lines 298-314): a container stopped stays
\* in the daemon, not running. The handler returns an error at once when the answer is
\* neither 0 nor No such container; the manager goes on whatever the answer.
DsStop(r) ==
    /\ dk.pc[r] = "stop_run"
    /\ \E a \in StopAnswers(dk.name[r]) :
         LET d == IF a = "0" /\ dk.name[r] \in dk.containers
                  THEN [dk EXCEPT !.containers = @ \ {dk.name[r]},
                                  !.stopped = @ \cup {dk.name[r]}]
                  ELSE dk
         IN  dk' = IF r = "handler" /\ a = "failed"
                   THEN [d EXCEPT !.pc[r] = "idle",
                                  !.ret[r] = DockerRet(FALSE, "failed to stop")]
                   ELSE [d EXCEPT !.pc[r] = "stop_rm", !.stop_result[r] = a]
    /\ UNCHANGED mcpVars

\* docker rm and the return (manager lines 218-230, handler lines 316-337): docker rm
\* removes the container when it exists and does not run, its answer is not looked at.
\* The manager discards the name and returns success when docker stop had answered 0,
\* and an error otherwise; the handler also takes No such container for a success.
DsRemove(r) ==
    /\ dk.pc[r] = "stop_rm"
    /\ dk' = IF dk.stop_result[r] = "0" \/ (dk.stop_result[r] = "gone" /\ r = "handler")
             THEN [dk EXCEPT !.pc[r] = "idle",
                             !.stopped = @ \ {dk.name[r]},
                             !.active[r] = @ \ {dk.name[r]},
                             !.stop_result[r] = "-",
                             !.ret[r] = DockerRet(TRUE, "stopped")]
             ELSE [dk EXCEPT !.pc[r] = "idle",
                             !.stopped = @ \ {dk.name[r]},
                             !.stop_result[r] = "-",
                             !.ret[r] = DockerRet(FALSE, "failed to stop")]
    /\ UNCHANGED mcpVars

\* A caller enters refresh_status / get_active_servers of the manager (lines 92-108) or
\* get_server_status / _refresh_status of the handler (lines 85-106): the set of active
\* names is cleared before the containers are looked at.
DrBegin(r) ==
    /\ dk.pc[r] = "idle"
    /\ dk' = [dk EXCEPT !.pc[r] = "refresh", !.op[r] = "refresh", !.name[r] = "-",
                        !.active[r] = {},
                        !.todo[r] = SelectSeq(DockerOrder, LAMBDA n : n \in docker_servers(r)),
                        !.sres[r] = NoStart, !.sent[r] = FALSE, !.ret[r] = NoQuery]
    /\ UNCHANGED mcpVars

\* One round of the loop of refresh_status (manager lines 110-112) / _refresh_status
\* (handler lines 108-110): docker ps for the next server, which is added when its
\* container runs; after the last one the list is returned.
DrScan(r) ==
    /\ dk.pc[r] = "refresh"
    /\ dk' = IF dk.todo[r] = <<>>
             THEN [dk EXCEPT !.pc[r] = "idle", !.ret[r] = DockerRet(TRUE, "status")]
             ELSE [dk EXCEPT !.todo[r] = Tail(@),
                             !.active[r] = IF ContainerRunning(Head(dk.todo[r]))
                                           THEN @ \cup {Head(dk.todo[r])} ELSE @]
    /\ UNCHANGED mcpVars

\* A container stops on its own; it stays in the daemon, not running.
ContainerExit(n) ==
    /\ n \in dk.containers
    /\ dk' = [dk EXCEPT !.containers = @ \ {n}, !.stopped = @ \cup {n}]
    /\ UNCHANGED mcpVars

(***************************************************************************)
(* The specification of MCPClient                                          *)
(***************************************************************************)
\* MCPClient.__init__: empty dicts, the monitor thread started.
Init ==
    /\ active_servers = <<>>
    /\ processes = <<>>
    /\ entries = <<>>
    /\ launches = 0
    /\ ops = 0
    /\ child = [k \in Launch |-> NoChild]
    /\ handles = [k \in Launch |-> "none"]
    /\ extBound \in SUBSET ExtPorts
    /\ pc = [c \in Callers |-> "idle"]
    /\ op = [c \in Callers |-> "none"]
    /\ arg = [c \in Callers |-> "-"]
    /\ lport = [c \in Callers |-> 0]
    /\ test_port = [c \in Callers |-> 0]
    /\ lproc = [c \in Callers |-> 0]
    /\ rpc = [c \in Callers |-> NoRpc]
    /\ ret = [c \in Callers |-> NoRet]
    /\ mon = MonIdle
    /\ deadAtPass = {}
    /\ obs = [c \in Callers |-> 0]
    /\ outer = [c \in Callers |-> NoOuter]
    /\ clients = OneClient
    /\ conf = Constructed(StdFiles)
    /\ dk = DkInit(TRUE, {})

Next ==
    \/ \E c \in Callers : BeginOp(c)
    \/ \E c \in Callers : Return(c)
    \/ \E c \in Callers : StartCheck(c)
    \/ \E c \in Callers : StartProbe(c)
    \/ \E c \in Callers : StartScan(c)
    \/ \E c \in Callers : StartSpawn(c)
    \/ \E c \in Callers : StartStore(c)
    \/ \E c \in Callers : StartGrace(c)
    \/ \E c \in Callers : StartActivate(c)
    \/ \E c \in Callers : StopCheck(c)
    \/ \E c \in Callers : StopLookup(c)
    \/ \E c \in Callers : StopTerm(c)
    \/ \E c \in Callers : StopCleanup(c)
    \/ \E c \in Callers : StopKill(c)
    \/ \E c \in Callers : CallCheck(c)
    \/ \E c \in Callers : CallLookup(c)
    \/ \E c \in Callers : CallPost(c)
    \/ \E c \in Callers : CallReturn(c)
    \/ MonBegin
    \/ MonNext
    \/ MonReap
    \/ \E k \in Launch : ChildBind(k)
    \/ \E k \in Launch : ChildExit(k)

Spec == Init /\ [][Next]_vars

(***************************************************************************)
(* The specification of the Docker routers                                 *)
(***************************************************************************)
\* Construction of the two routers: docker present or not, the container already
\* running or not; the MCPClient is left as constructed.
DockerInit ==
    /\ active_servers = <<>>
    /\ processes = <<>>
    /\ entries = <<>>
    /\ launches = 0
    /\ ops = 0
    /\ child = [k \in Launch |-> NoChild]
    /\ handles = [k \in Launch |-> "none"]
    /\ extBound = {}
    /\ pc = [c \in Callers |-> "idle"]
    /\ op = [c \in Callers |-> "none"]
    /\ arg = [c \in Callers |-> "-"]
    /\ lport = [c \in Callers |-> 0]
    /\ test_port = [c \in Callers |-> 0]
    /\ lproc = [c \in Callers |-> 0]
    /\ rpc = [c \in Callers |-> NoRpc]
    /\ ret = [c \in Callers |-> NoRet]
    /\ mon = MonIdle
    /\ deadAtPass = {}
    /\ obs = [c \in Callers |-> 0]
    /\ outer = [c \in Callers |-> NoOuter]
    /\ clients = OneClient
    /\ conf = Constructed(StdFiles)
    /\ \E avail \in BOOLEAN, running \in SUBSET DockerServers :
         dk = DkInit(avail, IF avail THEN running ELSE {})

DockerNext ==
    \/ \E r \in Routers : DqBegin(r)
    \/ \E r \in Routers : DqCheck(r)
    \/ \E r \in Routers : DtBegin(r)
    \/ \E r \in Routers : DqStart(r)
    \/ \E r \in Routers : DtRemove(r)
    \/ \E r \in Routers : DtPull(r)
    \/ \E r \in Routers : DtRun(r)
    \/ \E r \in Routers : DqStarted(r)
    \/ \E r \in Routers : DqPost(r)
    \/ \E r \in Routers : DsBegin(r)
    \/ \E r \in Routers : DsCheck(r)
    \/ \E r \in Routers : DsStop(r)
    \/ \E r \in Routers : DsRemove(r)
    \/ \E r \in Routers : DrBegin(r)
    \/ \E r \in Routers : DrScan(r)
    \/ \E n \in DockerServers : ContainerExit(n)

DockerSpec == DockerInit /\ [][DockerNext]_vars


(***************************************************************************)
(* The specification of repeated starts of one server                      *)
(***************************************************************************)
StartNext ==
    \/ \E c \in Callers : BeginStart(c)
    \/ \E c \in Callers : Return(c)
    \/ \E c \in Callers : StartCheck(c)
    \/ \E c \in Callers : StartProbe(c)
    \/ \E c \in Callers : StartScan(c)
    \/ \E c \in Callers : StartSpawn(c)
    \/ \E c \in Callers : StartStore(c)
    \/ \E c \in Callers : StartGrace(c)
    \/ \E c \in Callers : StartActivate(c)
    \/ MonBegin
    \/ MonNext
    \/ MonReap
    \/ \E k \in Launch : ChildBind(k)
    \/ \E k \in Launch : ChildExit(k)

StartSpec == Init /\ [][StartNext]_vars

(***************************************************************************)
(* The specification of get_mcp_client called by the threads themselves    *)
(***************************************************************************)
\* No client exists yet: the module global is None.
SingletonInit ==
    /\ active_servers = <<>>
    /\ processes = <<>>
    /\ entries = <<>>
    /\ launches = 0
    /\ ops = 0
    /\ child = [k \in Launch |-> NoChild]
    /\ handles = [k \in Launch |-> "none"]
    /\ extBound = {}
    /\ pc = [c \in Callers |-> "idle"]
    /\ op = [c \in Callers |-> "none"]
    /\ arg = [c \in Callers |-> "-"]
    /\ lport = [c \in Callers |-> 0]
    /\ test_port = [c \in Callers |-> 0]
    /\ lproc = [c \in Callers |-> 0]
    /\ rpc = [c \in Callers |-> NoRpc]
    /\ ret = [c \in Callers |-> NoRet]
    /\ mon = MonIdle
    /\ deadAtPass = {}
    /\ obs = [c \in Callers |-> 0]
    /\ dk = DkInit(TRUE, {})
    /\ outer = [c \in Callers |-> NoOuter]
    /\ conf = Constructed(StdFiles)
    /\ clients = NoClients

\* Each thread calls get_mcp_client once and runs start_server on what it got; the
\* monitor of every client made runs.
SingletonNext ==
    \/ \E c \in Callers : GetCheck(c)
    \/ \E c \in Callers : GetCreate(c)
    \/ \E c \in Callers : GetReturn(c)
    \/ \E j \in ClientIds : ShowClient(j)
    \/ \E c \in Callers : BeginStartOn(c)
    \/ \E c \in Callers : Return(c)
    \/ \E c \in Callers : OnClient(c) /\ StartCheck(c)
    \/ \E c \in Callers : OnClient(c) /\ StartProbe(c)
    \/ \E c \in Callers : OnClient(c) /\ StartScan(c)
    \/ \E c \in Callers : OnClient(c) /\ StartSpawn(c)
    \/ \E c \in Callers : OnClient(c) /\ StartStore(c)
    \/ \E c \in Callers : OnClient(c) /\ StartGrace(c)
    \/ \E c \in Callers : OnClient(c) /\ StartActivate(c)
    \/ clients.cur # 0 /\ MonBegin
    \/ clients.cur # 0 /\ MonNext
    \/ clients.cur # 0 /\ MonReap
    \/ \E k \in Launch : ChildBind(k)
    \/ \E k \in Launch : ChildExit(k)

SingletonSpec == SingletonInit /\ [][SingletonNext]_vars

(***************************************************************************)
(* The specification of repeated stop_server calls                         *)
(***************************************************************************)
StopNext ==
    \/ \E c \in Callers : BeginStart(c)
    \/ \E c \in Callers : BeginStop(c)
    \/ \E c \in Callers : Return(c)
    \/ \E c \in Callers : StartCheck(c)
    \/ \E c \in Callers : StartProbe(c)
    \/ \E c \in Callers : StartScan(c)
    \/ \E c \in Callers : StartSpawn(c)
    \/ \E c \in Callers : StartStore(c)
    \/ \E c \in Callers : StartGrace(c)
    \/ \E c \in Callers : StartActivate(c)
    \/ \E c \in Callers : StopCheck(c)
    \/ \E c \in Callers : StopLookup(c)
    \/ \E c \in Callers : StopTerm(c)
    \/ \E c \in Callers : StopCleanup(c)
    \/ \E c \in Callers : StopKill(c)
    \/ MonBegin
    \/ MonNext
    \/ MonReap
    \/ \E k \in Launch : ChildBind(k)
    \/ \E k \in Launch : ChildExit(k)

StopSpec == Init /\ [][StopNext]_vars

(***************************************************************************)
(* The specification of restart_server                                     *)
(***************************************************************************)
RestartNext ==
    \/ \E c \in Callers : BeginStart(c)
    \/ \E c \in Callers : BeginRestart(c)
    \/ \E c \in Callers : Return(c)
    \/ \E c \in Callers : StartCheck(c)
    \/ \E c \in Callers : StartProbe(c)
    \/ \E c \in Callers : StartScan(c)
    \/ \E c \in Callers : StartSpawn(c)
    \/ \E c \in Callers : StartStore(c)
    \/ \E c \in Callers : StartGrace(c)
    \/ \E c \in Callers : StartActivate(c)
    \/ \E c \in Callers : StopCheck(c)
    \/ \E c \in Callers : StopLookup(c)
    \/ \E c \in Callers : StopTerm(c)
    \/ \E c \in Callers : StopCleanup(c)
    \/ \E c \in Callers : StopKill(c)
    \/ \E c \in Callers : RestartSleep(c)
    \/ MonBegin
    \/ MonNext
    \/ MonReap
    \/ \E k \in Launch : ChildBind(k)
    \/ \E k \in Launch : ChildExit(k)

RestartSpec == Init /\ [][RestartNext]_vars

(***************************************************************************)
(* The specification of start_all_servers and stop_all_servers             *)
(***************************************************************************)
BatchNextStep ==
    \/ \E c \in Callers : BeginBatch(c)
    \/ \E c \in Callers : BatchNext(c)
    \/ \E c \in Callers : BatchCollect(c)
    \/ \E c \in Callers : Return(c)
    \/ \E c \in Callers : StartCheck(c)
    \/ \E c \in Callers : StartProbe(c)
    \/ \E c \in Callers : StartScan(c)
    \/ \E c \in Callers : StartSpawn(c)
    \/ \E c \in Callers : StartStore(c)
    \/ \E c \in Callers : StartGrace(c)
    \/ \E c \in Callers : StartActivate(c)
    \/ \E c \in Callers : StopCheck(c)
    \/ \E c \in Callers : StopLookup(c)
    \/ \E c \in Callers : StopTerm(c)
    \/ \E c \in Callers : StopCleanup(c)
    \/ \E c \in Callers : StopKill(c)
    \/ MonBegin
    \/ MonNext
    \/ MonReap
    \/ \E k \in Launch : ChildBind(k)
    \/ \E k \in Launch : ChildExit(k)

BatchSpec == Init /\ [][BatchNextStep]_vars

(***************************************************************************)
(* The specification of get_server_status next to the batch operations     *)
(***************************************************************************)
StatusNext ==
    \/ \E c \in Callers : BeginStatus(c)
    \/ \E c \in Callers : StatusCheck(c)
    \/ \E c \in Callers : StatusRead(c)
    \/ \E c \in Callers : BeginBatch(c)
    \/ \E c \in Callers : BatchNext(c)
    \/ \E c \in Callers : BatchCollect(c)
    \/ \E c \in Callers : Return(c)
    \/ \E c \in Callers : StartCheck(c)
    \/ \E c \in Callers : StartProbe(c)
    \/ \E c \in Callers : StartScan(c)
    \/ \E c \in Callers : StartSpawn(c)
    \/ \E c \in Callers : StartStore(c)
    \/ \E c \in Callers : StartGrace(c)
    \/ \E c \in Callers : StartActivate(c)
    \/ \E c \in Callers : StopCheck(c)
    \/ \E c \in Callers : StopLookup(c)
    \/ \E c \in Callers : StopTerm(c)
    \/ \E c \in Callers : StopCleanup(c)
    \/ \E c \in Callers : StopKill(c)
    \/ MonBegin
    \/ MonNext
    \/ MonReap
    \/ \E k \in Launch : ChildBind(k)
    \/ \E k \in Launch : ChildExit(k)

StatusSpec == Init /\ [][StatusNext]_vars

(***************************************************************************)
(* The specifications of the construction: load_config and _assign_ports   *)
(***************************************************************************)
\* __init__ line 52.
LoadConfig ==
    /\ conf.phase = "new"
    /\ conf' = Loaded(conf)
    /\ UNCHANGED <<active_servers, processes, entries, launches, ops, child, handles,
                   extBound, pc, op, arg, lport, lproc, rpc, ret, mon, deadAtPass, obs,
                   dk, clients, test_port, outer>>

\* __init__ lines 55-58.
AssignPorts ==
    /\ conf.phase = "loaded"
    /\ conf' = Assigned(conf)
    /\ UNCHANGED <<active_servers, processes, entries, launches, ops, child, handles,
                   extBound, pc, op, arg, lport, lproc, rpc, ret, mon, deadAtPass, obs,
                   dk, clients, test_port, outer>>

\* __init__ lines 26-45 with the given files at the candidate paths and the given ports
\* taken by unrelated processes.
NewClient(files, busy) ==
    /\ active_servers = <<>>
    /\ processes = <<>>
    /\ entries = <<>>
    /\ launches = 0
    /\ ops = 0
    /\ child = [k \in Launch |-> NoChild]
    /\ handles = [k \in Launch |-> "none"]
    /\ extBound = busy
    /\ pc = [c \in Callers |-> "idle"]
    /\ op = [c \in Callers |-> "none"]
    /\ arg = [c \in Callers |-> "-"]
    /\ lport = [c \in Callers |-> 0]
    /\ test_port = [c \in Callers |-> 0]
    /\ lproc = [c \in Callers |-> 0]
    /\ rpc = [c \in Callers |-> NoRpc]
    /\ ret = [c \in Callers |-> NoRet]
    /\ mon = MonIdle
    /\ deadAtPass = {}
    /\ obs = [c \in Callers |-> 0]
    /\ outer = [c \in Callers |-> NoOuter]
    /\ clients = OneClient
    /\ dk = DkInit(TRUE, {})
    /\ conf = NewConf(files)

LoadInit == \E files \in [1..NumPaths -> ConfigFiles] : NewClient(files, {})

LoadNext == LoadConfig \/ AssignPorts

LoadSpec == LoadInit /\ [][LoadNext]_vars

\* Sets of ports unrelated processes hold when the client is constructed: none, the
\* first, the second, both, the whole scan range.
BusyPortSets == { {}, {BasePort}, {BasePort + 1}, {BasePort, BasePort + 1},
                  BasePort..(ScanEnd - 1) }

ConfigInit == \E files \in StartFiles, busy \in BusyPortSets : NewClient(files, busy)

ConfigNext ==
    \/ LoadConfig
    \/ AssignPorts
    \/ \E c \in Callers : BeginStartAny(c)
    \/ \E c \in Callers : Return(c)
    \/ \E c \in Callers : StartCheck(c)
    \/ \E c \in Callers : StartProbe(c)
    \/ \E c \in Callers : StartScan(c)
    \/ \E c \in Callers : StartSpawn(c)
    \/ \E c \in Callers : StartStore(c)
    \/ \E c \in Callers : StartGrace(c)
    \/ \E c \in Callers : StartActivate(c)
    \/ MonBegin
    \/ MonNext
    \/ MonReap
    \/ \E k \in Launch : ChildBind(k)
    \/ \E k \in Launch : ChildExit(k)

ConfigSpec == ConfigInit /\ [][ConfigNext]_vars

(***************************************************************************)
(* Fairness: the threads keep being scheduled                              *)
(***************************************************************************)
\* The steps of caller c's operation in progress.
CallerStep(c) ==
    \/ Return(c) \/ StartCheck(c) \/ StartProbe(c) \/ StartScan(c) \/ StartSpawn(c)
    \/ StartStore(c) \/ StartGrace(c) \/ StartActivate(c)
    \/ StopCheck(c) \/ StopLookup(c) \/ StopTerm(c) \/ StopCleanup(c) \/ StopKill(c)
    \/ CallCheck(c) \/ CallLookup(c) \/ CallPost(c) \/ CallReturn(c)

MonitorStep == MonBegin \/ MonNext \/ MonReap

\* The SIGKILL sent by stop_server takes effect.
KilledExit == \E k \in Launch : child[k].sigkill /\ ChildExit(k)

\* CPython schedules every runnable thread again and again, and a process that was sent
\* SIGKILL dies; nothing else is assumed of the children (a tool server may run, and
\* stay silent, forever) nor of new operations.
FairSpec ==
    /\ Init
    /\ [][Next]_vars
    /\ \A c \in Callers : WF_vars(CallerStep(c))
    /\ WF_vars(MonitorStep)
    /\ WF_vars(KilledExit)

(***************************************************************************)
(* Claims                                                                  *)
(***************************************************************************)
\* Live children launched for server n.
LiveChildren(n) == {k \in Launch : child[k].name = n /\ child[k].st = "alive"}

\* C1: for every server name at most one child process is launched and alive at any
\* time, whatever the interleaving of the start_server calls (call_tool's included).
C1_SingleProcessPerServer ==
    \A n \in Servers : Cardinality(LiveChildren(n)) <= 1

\* C2: no two different servers in active_servers record the same port.
C2_DistinctPorts ==
    \A n \in DOMAIN active_servers : \A m \in DOMAIN active_servers :
        n # m => active_servers[n].port # active_servers[m].port

\* C3: every process that had exited, and was still tracked, when a monitor pass began
\* is out of active_servers when that pass ends; and this goes for every exit, so the
\* monitor is never gone while a tracked process has exited.
C3_ReapedWithinOnePass ==
    [][/\ (mon.pc = "iter" /\ mon'.pc \in {"sleep", "dead"})
            => deadAtPass \cap DeadTracked' = {}
       /\ mon'.pc = "dead" => DeadTracked' = {}]_vars

\* C4: when stop_server(n) returns True, n is in neither active_servers nor processes.
C4_StopRemovesEntry ==
    \A c \in Callers :
        (pc[c] = "done" /\ op[c] = "stop" /\ ret[c].kind = "True")
            => ~Has(active_servers, arg[c]) /\ ~Has(processes, arg[c])


\* Caller c is at the return of a start_server call that found its child exited at the
\* re-check after the grace interval.
LaunchFailed(c) ==
    /\ pc[c] \in {"done", "call_started"}
    /\ ret[c].op = "start"
    /\ ret[c].log = "failed to start"

\* C5: when the child has exited at the re-check, start_server(n) reports a launch
\* failure whose detail holds the captured stderr, and n is not in active_servers.
C5_LaunchFailureCarriesStderr ==
    \A c \in Callers :
        LaunchFailed(c) => ret[c].cause /\ ~Has(active_servers, arg[c])

\* The request of caller c's call_tool goes out in this step.
Issues(c) == pc[c] = "call_post" /\ pc'[c] = "call_wait"

\* A call_tool on a configured, never started server has its request out only after the
\* server went stopped, starting, running.
StartedBeforeRequest ==
    \A c \in Callers :
        (pc[c] \in {"call_post", "call_wait"} /\ obs[c] # 0) => obs[c] = 3

\* C6 as stated: call_tool on a never started server starts it first, the server goes
\* stopped, starting, running before the request, and no request goes out to a server
\* that is not in active_servers.
C6_NoRequestOutsideActive ==
    [][/\ StartedBeforeRequest'
       /\ \A c \in Callers : Issues(c) => Has(active_servers, arg[c])]_vars

\* C6 as amended: call_tool on a server that is not in active_servers enters
\* start_server first; for a never started server the status goes stopped, starting,
\* running before the request; and the request goes out only after call_tool has found
\* the server in active_servers, to the port recorded there (the entry may be removed
\* again before the request is out).
C6_StartsBeforeRequest ==
    [][/\ StartedBeforeRequest'
       /\ \A c \in Callers :
            /\ (pc[c] = "call_check" /\ pc'[c] # "call_check" /\ ~Has(active_servers, arg[c]))
                  => pc'[c] = "start_check"
            /\ (pc[c] # "call_post" /\ pc'[c] = "call_post")
                  => /\ pc[c] \in {"call_started", "call_lookup"}
                     /\ Has(active_servers, arg[c])
                     /\ lport'[c] = active_servers[arg[c]].port]_vars

\* C6 witness: the request of a call_tool on a never started server is out, after the
\* server was seen stopped, starting and running.
C6_Witness ==
    \E c \in Callers : pc[c] = "call_wait" /\ obs[c] = 3 /\ rpc[c].st = "sent"

\* C7: in a router that starts its server on demand, when the start reports failure
\* the call returns an error and sends no HTTP request.
C7_FailedStartSendsNothing ==
    \A r \in Routers :
        (DOMAIN dk.sres[r] # {} /\ ~dk.sres[r].success)
            => /\ dk.pc[r] # "post"
               /\ ~dk.sent[r]
               /\ dk.pc[r] = "idle" => dk.ret[r] = [kind |-> "error", why |-> "failed to start"]

\* C8: call_tool never raises to its caller.
C8_CallToolNeverRaises ==
    \A c \in Callers : pc[c] = "done" /\ op[c] = "call" => ret[c].kind # "raised"

\* C9: every call_tool whose request is out returns.
C9_CallToolReturns ==
    \A c \in Callers : (pc[c] = "call_wait") ~> (pc[c] = "done")

\* C10: a non-2xx answer is never handed back as the result, and the error returned
\* after a failed request carries the server name, the tool name and the cause.
C10_FailedCallIsStructuredError ==
    \A c \in Callers :
        (pc[c] = "done" /\ op[c] = "call")
            => /\ ret[c].kind = "json" => ret[c].http = 200
               /\ (ret[c].kind = "error" /\ ret[c].log # "failed to start")
                     => ret[c].server /\ ret[c].tool /\ ret[c].cause

\* Caller c takes a step of call_tool's own code (lines 397-419), outside start_server.
CallToolStep(c) ==
    /\ pc[c] \in {"call_check", "call_started", "call_lookup", "call_post", "call_wait"}
    /\ pc'[c] # pc[c]

\* C11: call_tool's own steps leave active_servers, processes and the child processes
\* as they are, whatever the request yields, and open or close no log handle (the one
\* change is the end of the files of a failed on-demand start, when start_server's
\* frame goes); the request is made once (no retry) and its failure is followed by the
\* return, not by a start or a stop.
C11_FailedCallChangesNothing ==
    [][\A c \in Callers :
         CallToolStep(c)
            => /\ UNCHANGED <<active_servers, processes, entries, child, launches>>
               /\ \A k \in Launch :
                    \/ handles'[k] = handles[k]
                    \/ pc[c] = "call_started" /\ handles'[k] = "finalized"
               /\ pc[c] = "call_post" => pc'[c] = "call_wait"
               /\ pc[c] = "call_wait" => pc'[c] = "done"]_vars

\* C11 witness: a call_tool on a server that was in active_servers has returned the
\* error of a failed request, and the server is still recorded with its child alive.
C11_Witness ==
    \E c \in Callers :
        /\ pc[c] = "done" /\ op[c] = "call"
        /\ ret[c].kind = "error" /\ ret[c].cause
        /\ lproc[c] = 0
        /\ Has(active_servers, arg[c]) /\ Has(processes, arg[c])
        /\ child[processes[arg[c]].process].st = "alive"

\* Caller c's stop_server runs its test of line 284 in this step.
StopTests(c) == pc[c] = "stop_check" /\ pc'[c] # "stop_check"

\* The registry and what it stands for: both dicts, the children, the log handles.
RegistryUnchanged ==
    UNCHANGED <<active_servers, processes, entries, child, launches, handles>>

\* C12: stop_server(n) on a server that is not in active_servers (in particular a
\* second stop_server(n) right after a first one) returns success and leaves the
\* registry unchanged.
C12_StopIsIdempotent ==
    [][\A c \in Callers :
         (StopTests(c) /\ ~Has(active_servers, arg[c]))
            => ret'[c].kind = "True" /\ RegistryUnchanged]_vars

\* C12, the case of a second stop: one stop_server(n) has returned True after
\* terminating the server and removing its entries, no start has been made since, and
\* another stop_server(n) is about to run its test of line 284.
C12_SecondStop ==
    \E c, d \in Callers :
        /\ c # d
        /\ pc[c] = "done" /\ ret[c] = BoolRet("stop", arg[d], TRUE, "stopped")
        /\ pc[d] = "stop_check" /\ op[d] = "stop"
        /\ ~Has(active_servers, arg[d]) /\ ~Has(processes, arg[d])
        /\ \A k \in Launch : child[k].name = arg[d] => handles[k] = "closed"

\* Caller c's start_server runs its tests of lines 188-195 in this step.
StartTests(c) == pc[c] = "start_check" /\ pc'[c] # "start_check"

\* C13: start_server(n) for a server that is in active_servers returns True as already
\* running, goes on to no spawn and leaves the registry unchanged.
C13_StartOfRunningIsNoop ==
    [][\A c \in Callers :
         (StartTests(c) /\ Has(active_servers, arg[c]))
            => /\ ret'[c] = BoolRet("start", arg[c], TRUE, "already running")
               /\ pc'[c] # "start_probe"
               /\ RegistryUnchanged]_vars

\* C14: when a monitor pass began with two or more tracked processes exited, none of
\* them is still tracked in active_servers when that pass ends.
C14_AllDeadReapedInOnePass ==
    [][(/\ mon.pc = "iter"
        /\ mon'.pc \in {"sleep", "dead"}
        /\ Cardinality(deadAtPass) >= 2
        /\ \A c \in Callers : pc[c] = "idle")
          => deadAtPass \cap DeadTracked' = {}]_vars

\* The monitor thread takes a step.
MonitorMoves == mon' # mon

\* Names whose entry a step removes from dict d.
Removed(d, e) == DOMAIN d \ DOMAIN e

\* C15: a monitor step launches nothing, opens and closes no log file (it can only let
\* go of file objects nothing else refers to) and adds or changes no entry; the entries it
\* removes are entries whose process has exited; and a name enters active_servers only
\* in a caller's start_server.
C15_MonitorOnlyRemovesExited ==
    [][/\ MonitorMoves
            => /\ UNCHANGED <<launches, child>>
               /\ \A k \in Launch : handles'[k] \in {handles[k], "finalized"}
               /\ \A n \in DOMAIN active_servers' :
                      Has(active_servers, n) /\ active_servers'[n] = active_servers[n]
               /\ \A n \in DOMAIN processes' :
                      Has(processes, n) /\ processes'[n] = processes[n]
               /\ \A n \in Removed(processes, processes') : Exited(processes[n].process)
               /\ \A n \in Removed(active_servers, active_servers') :
                      Has(processes, n) /\ Exited(processes[n].process)
       /\ \A n \in Removed(active_servers', active_servers) :
              \E c \in Callers :
                  pc[c] = "start_activate" /\ arg[c] = n /\ pc'[c] # "start_activate"
      ]_vars

\* Caller c is inside stop_server(n), no other caller is inside any operation, and n
\* is the only name processes has: what the monitor reconciles is n's entry.
StopAloneWithMonitor(c) ==
    /\ op[c] = "stop"
    /\ pc[c] \in {"stop_check", "stop_lookup", "stop_term", "stop_cleanup", "stop_kill"}
    /\ \A d \in Callers \ {c} : pc[d] = "idle"
    /\ DOMAIN processes \subseteq {arg[c]}

\* C16: while stop_server(n) runs next to the monitor's reconciliation of n, no step
\* makes stop_server raise and no step ends the monitor thread with an exception.
C16_StopAndMonitorBothSurvive ==
    [][\A c \in Callers :
         StopAloneWithMonitor(c)
            => /\ ret'[c].kind # "raised"
               /\ mon.pc # "dead" => mon'.pc # "dead"]_vars

\* Launch k is the process some entry of processes records.
Recorded(k) == \E n \in DOMAIN processes : processes[n].process = k

\* A call of start_server or stop_server that works on launch k has not returned yet.
InFlight(k) == \E c \in Callers : FrameOf(c) = k

\* Caller c's stop_server returns True in this step, after the graceful wait or after
\* the forced kill.
StopSucceeds(c) == pc[c] \in {"stop_cleanup", "stop_kill"} /\ pc'[c] # pc[c]

\* C17: the log handles of a launch are open only while processes records that launch
\* or a start_server / stop_server call on it is still running, and a stop_server that
\* returns True, gracefully or after a forced kill, leaves the handles of the launch it
\* stopped not open: every path that ends the launch or removes its entry has closed them.
C17_HandlesClosedOnEveryPath ==
    /\ [](\A k \in Launch : handles[k] = "open" => Recorded(k) \/ InFlight(k))
    /\ [][\A c \in Callers : StopSucceeds(c) => handles'[lproc[c]] # "open"]_vars

\* C18: when restart_server(n) returns True for a server that was running when it was
\* called, n is in active_servers and processes with a live process that is not the
\* one recorded before the restart.
C18_RestartLaunchesNewProcess ==
    \A c \in Callers :
        (pc[c] = "done" /\ op[c] = "restart" /\ ret[c].kind = "True" /\ outer[c].pre # 0)
            => /\ Has(active_servers, arg[c])
               /\ Has(processes, arg[c])
               /\ processes[arg[c]].process # outer[c].pre
               /\ child[processes[arg[c]].process].st = "alive"

\* Server n has crashed: a process launched for it has exited and the monitor has
\* removed its entry, so that neither dict has the name.
Crashed(n) ==
    /\ ~Has(active_servers, n)
    /\ ~Has(processes, n)
    /\ \E k \in Launch : child[k].name = n /\ Exited(k)

\* C19: a name leaves active_servers only when the monitor reaps it or stop_server
\* removes it; a call_tool that finds its server crashed enters start_server, as for a
\* stopped one; and after that start the request goes out only if it returned True.
C19_CrashedIsStartedOnDemand ==
    [][/\ \A n \in Removed(active_servers, active_servers') :
              \/ mon.pc = "reap" /\ mon.cur = n /\ MonitorMoves
              \/ \E c \in Callers :
                     pc[c] = "stop_cleanup" /\ arg[c] = n /\ pc'[c] # "stop_cleanup"
       /\ \A c \in Callers :
              /\ (pc[c] = "call_check" /\ pc'[c] # "call_check" /\ Crashed(arg[c]))
                    => pc'[c] = "start_check"
              /\ (pc[c] = "call_started" /\ pc'[c] = "call_post")
                    => ret[c].kind = "True"]_vars

\* C19 witness: a process tracked in active_servers had exited when the current monitor
\* pass began, the monitor has removed the entry, and a call_tool for that server has
\* found it missing and entered start_server.
C19_Witness ==
    \E c \in Callers :
        /\ op[c] = "call" /\ pc[c] = "start_check"
        /\ Crashed(arg[c])
        /\ \E k \in deadAtPass : child[k].name = arg[c]

\* C20: start_all_servers and stop_all_servers return a results dict (they do not
\* raise) that has one entry for every configured server.
C20_BatchCoversEveryDefinition ==
    \A c \in Callers :
        (pc[c] = "done" /\ op[c] \in BatchOps)
            => /\ ret[c].kind = "dict"
               /\ DOMAIN outer[c].res = Servers

\* The port table of a constructed client: one port per definition, base_port + i for
\* the i-th definition (from 0) in insertion order, no port twice.
PortsByIndex ==
    conf.phase = "ready" =>
        /\ DOMAIN ports = DOMAIN servers
        /\ \A i \in 1..Len(conf.servers.order) : ports[conf.servers.order[i]] = BasePort + i - 1
        /\ \A m, n \in DOMAIN ports : m # n => ports[m] # ports[n]

\* A start_server call whose probe finds the assigned port free goes on with that port,
\* launches the child with it and records it in processes and in active_servers.
StartUsesAssigned ==
    \A c \in Callers :
        /\ (pc[c] = "start_probe" /\ pc'[c] = "start_spawn" /\ ~PortInUse(ports[arg[c]]))
               => lport'[c] = ports[arg[c]]
        /\ (pc[c] = "start_spawn" /\ pc'[c] = "start_store")
               => child'[lproc'[c]].port = lport[c]
        /\ (pc[c] = "start_store" /\ pc'[c] = "start_grace")
               => processes'[arg[c]].port = lport[c]
        /\ (pc[c] = "start_activate" /\ ret'[c].log = "started")
               => active_servers'[arg[c]].port = lport[c]

\* C21: the first-pass assignment gives the i-th definition the port base_port + i, every
\* definition has a port and no two share one; a server started while its port is free
\* runs on that port.
C21_PortsAssignedByIndex == []PortsByIndex /\ [][StartUsesAssigned]_vars

\* The second definition of a loaded configuration runs on base_port + 1, entered in
\* active_servers, with no unrelated process on a port.
C21_Witness ==
    /\ conf.phase = "ready"
    /\ extBound = {}
    /\ \E k \in Launch :
         /\ child[k].st = "alive"
         /\ Len(conf.servers.order) >= 2
         /\ child[k].name = conf.servers.order[2]
         /\ child[k].port = BasePort + 1
         /\ Has(active_servers, child[k].name)
         /\ active_servers[child[k].name].port = BasePort + 1

\* The definition of n says enabled.
Enabled(n) == Has(servers, n) /\ servers[n].enabled

\* C22: start_server launches a process only for an enabled definition: no process was
\* spawned for, and active_servers holds no entry of, a server that is not enabled.
C22_DisabledNeverSpawned ==
    /\ \A k \in Launch : child[k].st \in {"alive", "dead"} => Enabled(child[k].name)
    /\ \A n \in DOMAIN active_servers : Enabled(n)

\* A candidate file that is a configuration: it parses, holds one of the two keys, and
\* the value under the key is read to its end.
Recognised(f) ==
    \/ f.kind = "mcpServers" /\ f.json \in {"object", "array"}
    \/ f.kind = "providers" /\ f.json = "object" /\ \A i \in 1..Len(f.items) : f.items[i].obj

\* The first recognised candidate, 0 when there is none.
FirstRecognised(files) ==
    LET ok == {i \in 1..Len(files) : Recognised(files[i])}
    IN  IF ok = {} THEN 0 ELSE CHOOSE i \in ok : \A j \in ok : i <= j

\* The definitions are those of the file f and of nothing else.
ExactlyFrom(f, d) ==
    IF f.kind = "mcpServers"
    THEN IF f.json = "array" THEN d.shape = "list"
         ELSE /\ d.shape = "dict"
              /\ DOMAIN d.defs = {f.items[i][1] : i \in 1..Len(f.items)}
              /\ \A i \in 1..Len(f.items) : d.defs[f.items[i][1]] = f.items[i][2]
    ELSE /\ d.shape = "dict"
         /\ DOMAIN d.defs = {f.items[i].name : i \in {j \in 1..Len(f.items) : f.items[j].enabled}}

\* C23: load_config takes the definitions from exactly one source, the first candidate
\* in priority order that is a configuration, and merges in nothing of a later path nor
\* of an earlier path that failed part-way; with no such candidate, the built-in set.
C23_FirstSourceWins ==
    conf.phase # "new" =>
        LET w == FirstRecognised(conf.files)
        IN  IF w = 0 THEN conf.servers = DefaultServers
            ELSE ExactlyFrom(conf.files[w], conf.servers)

\* A provider file that fails after B was converted, then the native file with A alone:
\* the loaded definitions are A alone.
C23_Witness ==
    /\ conf.phase = "loaded"
    /\ conf.files[1] = ProvFile("object", <<Provider("B", TRUE, TRUE), Provider("A", FALSE, TRUE)>>)
    /\ conf.files[2] = ProvFile("object", <<Provider("A", TRUE, TRUE), Provider("B", TRUE, FALSE)>>)
    /\ DOMAIN servers = {"A"}

\* C24: load_config returns (it never raises), and when no candidate path yields a
\* configuration (each is missing, unreadable or malformed) the definitions are the
\* built-in default set, which is not empty.
C24_FallsBackToDefault ==
    (conf.phase # "new" /\ \A i \in 1..Len(conf.files) : ~Recognised(conf.files[i]))
        => /\ conf.phase \in {"loaded", "ready"}
           /\ conf.servers.shape = "dict"
           /\ conf.servers.order = DefaultOrder
           /\ DOMAIN servers = {DefaultOrder[i] : i \in 1..Len(DefaultOrder)}
           /\ \A n \in DOMAIN servers : servers[n] = Def("npx", TRUE)

\* A malformed file, a native file whose "mcpServers" is null and a provider file that
\* fails after one provider was converted: the client is constructed on the default set.
C24_Witness ==
    /\ conf.phase = "ready"
    /\ conf.files[1] = Malformed
    /\ conf.files[2] = McpFile("null", <<>>)
    /\ conf.files[3] = ProvFile("object", <<Provider("B", TRUE, TRUE), Provider("A", FALSE, TRUE)>>)
    /\ Len(conf.servers.order) = Len(DefaultOrder)
    /\ DOMAIN ports = DOMAIN servers

\* The ports of the bounded window that starts at port p and are free.
FreeFrom(p) == {q \in p..(p + (ScanEnd - BasePort) - 1) : ~PortInUse(q)}

\* C25: a start_server that found its assigned port occupied ends its search on a free
\* port of the window at or above the assigned port, and fails for want of a port only
\* when that window has no free port.
C25_SearchesUpwardFromAssigned ==
    [][\A c \in Callers :
          (pc[c] = "start_scan" /\ pc'[c] # "start_scan")
              => IF ret'[c].log = "no available port"
                 THEN FreeFrom(ports[arg[c]]) = {}
                 ELSE lport'[c] \in FreeFrom(ports[arg[c]])]_vars

\* n has an entry in active_servers (and its process record) whose process has not
\* exited.
LiveEntry(n) ==
    Has(active_servers, n) /\ Has(processes, n) /\ ~Exited(processes[n].process)

\* n has an entry whose process has exited and that was not reaped yet.
ExitedEntry(n) ==
    Has(active_servers, n) /\ Has(processes, n) /\ Exited(processes[n].process)

\* C26: get_server_status(n) reports running exactly when n has an entry in
\* active_servers whose process has not exited, reports an exited process that was not
\* reaped as not running with its exit code, and after stop_all_servers no server has a
\* live entry.
C26_StatusTellsLiveness ==
    \A c \in Callers :
        /\ (pc[c] = "done" /\ op[c] = "status")
               => /\ ret[c].kind = "status"
                  /\ ret[c].log = "running" <=> LiveEntry(arg[c])
                  /\ ExitedEntry(arg[c]) => ret[c].log = "exited"
        /\ (pc[c] = "done" /\ op[c] = "stop_all")
               => \A n \in Servers : ~LiveEntry(n)

\* A start_server call for n is in progress (entered by the application, by restart_server,
\* by start_all_servers or by call_tool).
StartInProgress(n) ==
    \E c \in Callers :
        /\ arg[c] = n
        /\ pc[c] \in {"start_check", "start_probe", "start_scan", "start_spawn", "start_store",
                 "start_grace", "start_activate"}

\* C27: whenever no start_server(n) call is in progress, n has an entry in processes
\* exactly when it has one in active_servers; a failed launch, a stop and a monitor pass
\* leave no entry for n in either map.
C27_MapsAgreeOutsideStart ==
    \A n \in Servers :
        ~StartInProgress(n) => (Has(processes, n) <=> Has(active_servers, n))

\* C28: for a server in both maps, the port of its active_servers entry is the port of
\* its processes entry, which is the port given as PORT to the process recorded there.
C28_RecordedPortsAgree ==
    \A n \in DOMAIN active_servers \cap DOMAIN processes :
        /\ active_servers[n].port = processes[n].port
        /\ child[processes[n].process].port = processes[n].port

\* C29: the monitor thread never ends (self.running stays True during the run): it is
\* asleep, in its loop or about to reap, whatever start_server, stop_server and its own
\* pops do to processes.
C29_MonitorKeepsRunning == mon.pc \in {"sleep", "iter", "reap"}

\* n is no definition, or its definition has no command.
NoUsableDefinition(n) == ~Has(servers, n) \/ servers[n].command = ""

\* Caller c takes a step of start_server.
StartStep(c) ==
    /\ pc[c] \in {"start_check", "start_probe", "start_scan", "start_spawn", "start_store",
                 "start_grace", "start_activate"}
    /\ pc'[c] # pc[c] \/ test_port'[c] # test_port[c]

\* C30: start_server(n) for a name without definition, or whose definition has no
\* command, spawns nothing, leaves active_servers, processes and the port table as they
\* are, and returns False.
C30_UnusableDefinitionFails ==
    [][\A c \in Callers :
          (StartStep(c) /\ NoUsableDefinition(arg[c]))
              => /\ active_servers' = active_servers
                 /\ processes' = processes
                 /\ ports' = ports
                 /\ launches' = launches
                 /\ child' = child
                 /\ pc'[c] \in {"start_probe", "start_scan", "done"}
                 /\ pc'[c] = "done" => ret'[c].kind = "False"]_vars

\* start_server has returned False for the definition without command while another
\* server is running.
C30_Witness ==
    \E c \in Callers :
        /\ pc[c] = "done"
        /\ op[c] = "start"
        /\ Has(servers, arg[c])
        /\ servers[arg[c]].command = ""
        /\ ret[c].kind = "False"
        /\ ret[c].log = "no command"
        /\ active_servers # <<>>

====
